---- MODULE Spec2Model ----
(***************************************************************************)
(* Model of the tool registry and routing subsystem of the super agent     *)
(* (src/agents/super_agent.py) with the response formatter                 *)
(* (src/agents/utils.py).                                                  *)
(*                                                                         *)
(* Strings whose characters the code inspects (tool names, classifier      *)
(* output) are sequences of one-character strings, so that strip, split    *)
(* and the substring test are computed as Python computes them.  A Python  *)
(* dict is a sequence of (key, value) pairs in insertion order.  The       *)
(* transcript, of which the code only takes the length and the stripped    *)
(* length, is a run of leading whitespace, a body without outer            *)
(* whitespace, and a run of trailing whitespace.                           *)
(***************************************************************************)
EXTENDS Integers, Sequences, FiniteSets, TLC

----------------------------------------------------------------------------
(* Bounds of the model *)

\* number of passes of populate_tool_registry in one behaviour
MaxRefresh == 2

\* longest "tools" list in a discovery response
MaxTools == 2

----------------------------------------------------------------------------
(* String constants of the source *)

SUMMARIZE_TRANSCRIPT == <<"s","u","m","m","a","r","i","z","e","_","t","r","a","n","s","c","r","i","p","t">>

HIGHLIGHT_KEY_POINTS == <<"h","i","g","h","l","i","g","h","t","_","k","e","y","_","p","o","i","n","t","s">>

EXTRACT_TASKS == <<"e","x","t","r","a","c","t","_","t","a","s","k","s">>

KW_SUMMARIZE == <<"s","u","m","m","a","r","i","z","e">>

KW_HIGHLIGHT == <<"h","i","g","h","l","i","g","h","t">>

KW_EXTRACT == <<"e","x","t","r","a","c","t">>

KW_ASSIGN == <<"a","s","s","i","g","n">>

SUMMARIZER_URL == "http://localhost:8001"

TASK_EXTRACTOR_URL == "http://localhost:8002"

\* MicroAgentConfig.PLUGIN_ENDPOINTS, each endpoint named by its base URL
PLUGIN_ENDPOINTS == <<SUMMARIZER_URL, TASK_EXTRACTOR_URL>>

Endpoints == 1..Len(PLUGIN_ENDPOINTS)

----------------------------------------------------------------------------
(* Python str operations *)

Whitespace == {" ", "\n", "\t"}

\* str.strip(): drop the leading and the trailing whitespace
Strip(s) ==
    LET keep == {i \in 1..Len(s) : s[i] \notin Whitespace}
    IN  IF keep = {} THEN <<>>
        ELSE LET lo == CHOOSE i \in keep : \A j \in keep : i <= j
                 hi == CHOOSE i \in keep : \A j \in keep : j <= i
             IN  SubSeq(s, lo, hi)

\* str.split(): the maximal runs of non-whitespace characters, in order
RECURSIVE Split(_)
Split(s) ==
    IF s = <<>> THEN <<>>
    ELSE IF Head(s) \in Whitespace THEN Split(Tail(s))
    ELSE LET stops == {i \in 1..Len(s) : s[i] \in Whitespace}
             end   == IF stops = {} THEN Len(s) + 1
                      ELSE CHOOSE i \in stops : \A j \in stops : i <= j
         IN  <<SubSeq(s, 1, end - 1)>> \o Split(SubSeq(s, end, Len(s)))

\* the Python test  sub in s  on strings
Contains(sub, s) ==
    \E i \in 1..(Len(s) - Len(sub) + 1) : SubSeq(s, i, i + Len(sub) - 1) = sub

----------------------------------------------------------------------------
(* Python dict: pairs in insertion order, keys unique *)

DictKeys(d) == [i \in 1..Len(d) |-> d[i].key]

DictKeySet(d) == {d[i].key : i \in 1..Len(d)}

DictHas(d, k) == \E i \in 1..Len(d) : d[i].key = k

DictGet(d, k) == d[CHOOSE i \in 1..Len(d) : d[i].key = k].value

\* variant of DictSet: an existing key keeps its first value
DictSet_FirstWins(d, k, v) ==
    IF DictHas(d, k) THEN d ELSE Append(d, [key |-> k, value |-> v])

\* d[k] = v : an existing key keeps its position, a new key goes last
DictSet(d, k, v) ==
    IF DictHas(d, k)
    THEN [i \in 1..Len(d) |-> IF d[i].key = k THEN [key |-> k, value |-> v] ELSE d[i]]
    ELSE Append(d, [key |-> k, value |-> v])

----------------------------------------------------------------------------
(* Discovery responses of the providers *)

FOO == <<"f","o","o">>

\* tool definitions a provider may advertise: the two endpoints can advertise
\* the same name with different definitions, a name that carries no routing
\* keyword, and an entry without a "name" field
Catalog(p) ==
    IF p = 1
    THEN { [name |-> SUMMARIZE_TRANSCRIPT,
            description |-> "Summarizes a transcript into a short paragraph."],
           [name |-> FOO, description |-> "foo of the summarizer"],
           [description |-> "entry without a name"] }
    ELSE { [name |-> EXTRACT_TASKS,
            description |-> "Finds actionable tasks mentioned in a transcript and returns them as a JSON list."],
           [name |-> SUMMARIZE_TRANSCRIPT,
            description |-> "summary of the task extractor",
            parameters |-> [properties |-> {"context"}]],
           [description |-> "entry without a name"] }

RECURSIVE SeqsUpTo(_, _)
SeqsUpTo(S, n) ==
    IF n = 0 THEN {<<>>}
    ELSE LET shorter == SeqsUpTo(S, n - 1)
         IN  shorter \cup {Append(q, x) : q \in shorter, x \in S}

\* what an endpoint answers to GET /.well-known/mcp.json : no answer
\* (connection refused, timeout), an error status, a body that is not JSON,
\* a JSON body that is not an object, or a JSON object with or without "tools"
DiscoveryFailures ==
    { [kind |-> "unreachable"], [kind |-> "timeout"], [kind |-> "http_error"],
      [kind |-> "not_json"], [kind |-> "not_object"] }

DiscoveryResponses(p) ==
    DiscoveryFailures
    \cup { [kind |-> "ok", data |-> [resources |-> <<>>]] }
    \cup { [kind |-> "ok", data |-> [tools |-> ts, resources |-> <<>>]] :
              ts \in SeqsUpTo(Catalog(p), MaxTools) }

\* the discovery responses used next to requests: the endpoint is down, or
\* it sends the first k tools of its manifest; the manifest of the second
\* endpoint repeats a name of the first
Manifest(p) ==
    IF p = 1
    THEN << [name |-> SUMMARIZE_TRANSCRIPT,
             description |-> "Summarizes a transcript into a short paragraph."],
            [name |-> FOO, description |-> "foo of the summarizer"] >>
    ELSE << [name |-> EXTRACT_TASKS,
             description |-> "Finds actionable tasks mentioned in a transcript and returns them as a JSON list."],
            [name |-> SUMMARIZE_TRANSCRIPT,
             description |-> "summary of the task extractor",
             parameters |-> [properties |-> {"context"}]] >>

ManifestResponses(p) ==
    { [kind |-> "unreachable"] }
    \cup { [kind |-> "ok",
            data |-> [tools |-> SubSeq(Manifest(p), 1, k), resources |-> <<>>]] :
              k \in 0..Len(Manifest(p)) }

----------------------------------------------------------------------------
(* fetch_tools_from_plugin and populate_tool_registry *)

\* variant of fetch_tools_from_plugin: a failure is swallowed into an empty list
fetch_tools_Swallow(resp) ==
    IF resp.kind = "ok" /\ "tools" \in DOMAIN resp.data
    THEN [raised |-> FALSE, tools |-> resp.data.tools]
    ELSE [raised |-> FALSE, tools |-> <<>>]

\* fetch_tools_from_plugin: the tools list, or the HTTPException it raises
fetch_tools_from_plugin(resp) ==
    IF resp.kind \in {"unreachable", "timeout"}
    THEN [raised |-> TRUE, status_code |-> 500, detail |-> "Failed to fetch tools from"]
    ELSE IF resp.kind \in {"http_error", "not_json", "not_object"}
    THEN [raised |-> TRUE, status_code |-> 500, detail |-> "Error processing response from"]
    ELSE [raised |-> FALSE,
          tools  |-> IF "tools" \in DOMAIN resp.data THEN resp.data.tools ELSE <<>>]

\* the loop  for tool in tools: tool_registry[tool["name"]] = tool , which a
\* tool without "name" leaves with a KeyError that the caller catches
RECURSIVE RegisterTools(_, _)
RegisterTools(reg, tools) ==
    IF tools = <<>> THEN reg
    ELSE IF "name" \notin DOMAIN Head(tools) THEN reg
    ELSE RegisterTools(DictSet(reg, Head(tools).name, Head(tools)), Tail(tools))

\* history: the endpoint whose tool each assignment of that loop stores
RECURSIVE RegisterOwner(_, _, _)
RegisterOwner(owners, tools, p) ==
    IF tools = <<>> THEN owners
    ELSE IF "name" \notin DOMAIN Head(tools) THEN owners
    ELSE RegisterOwner(DictSet(owners, Head(tools).name, p), Tail(tools), p)

\* the body of the try statement of populate_tool_registry for one endpoint
RegistryAfter(reg, outcome) ==
    IF outcome.raised THEN reg ELSE RegisterTools(reg, outcome.tools)

\* variant of LoopAfter: the try statement encloses the loop, a failure ends it
LoopAfter_Abort(idx, outcome) ==
    IF outcome.raised THEN 0
    ELSE IF idx < Len(PLUGIN_ENDPOINTS) THEN idx + 1 ELSE 0

\* the endpoint the for loop of populate_tool_registry goes to after endpoint
\* idx, 0 when the loop ends: the except clause is inside the loop
LoopAfter(idx, outcome) ==
    IF idx < Len(PLUGIN_ENDPOINTS) THEN idx + 1 ELSE 0

----------------------------------------------------------------------------
(* The transcript *)

\* len() and strip() of a text given as leading whitespace, body, trailing
\* whitespace; the body begins and ends with a character that is not whitespace
TextLen(t) == t.lead + t.body + t.trail

TextStrip(t) == [lead |-> 0, body |-> t.body, trail |-> 0]

Text(lead, body, trail) == [lead |-> lead, body |-> body, trail |-> trail]

----------------------------------------------------------------------------
(* More str operations, used by format_response *)

LOWER == <<"a","b","c","d","e","f","g","h","i","j","k","l","m","n","o","p","q","r","s","t","u","v","w","x","y","z">>

UPPER == <<"A","B","C","D","E","F","G","H","I","J","K","L","M","N","O","P","Q","R","S","T","U","V","W","X","Y","Z">>

IsLetter(c) == \E i \in 1..26 : c = LOWER[i] \/ c = UPPER[i]

ToUpper(c) == IF \E i \in 1..26 : c = LOWER[i]
              THEN UPPER[CHOOSE i \in 1..26 : c = LOWER[i]] ELSE c

ToLower(c) == IF \E i \in 1..26 : c = UPPER[i]
              THEN LOWER[CHOOSE i \in 1..26 : c = UPPER[i]] ELSE c

\* str.title(): a letter after a non-letter is upper case, the others lower case
Title(s) ==
    [i \in 1..Len(s) |->
        IF i = 1 \/ ~IsLetter(s[i - 1]) THEN ToUpper(s[i]) ELSE ToLower(s[i])]

StartsWith(s, prefix) ==
    Len(prefix) <= Len(s) /\ SubSeq(s, 1, Len(prefix)) = prefix

\* str.replace(old, new) for a non-empty old: left to right, no overlap
RECURSIVE Replace(_, _, _)
Replace(s, old, new) ==
    IF s = <<>> THEN <<>>
    ELSE IF StartsWith(s, old)
    THEN new \o Replace(SubSeq(s, Len(old) + 1, Len(s)), old, new)
    ELSE <<Head(s)>> \o Replace(Tail(s), old, new)

\* str.count(sub) for a non-empty sub
RECURSIVE Count(_, _)
Count(s, sub) ==
    IF s = <<>> THEN 0
    ELSE IF StartsWith(s, sub)
    THEN 1 + Count(SubSeq(s, Len(sub) + 1, Len(s)), sub)
    ELSE Count(Tail(s), sub)

DIGITS == <<"0","1","2","3","4","5","6","7","8","9">>

\* str() of a natural number
RECURSIVE IntToStr(_)
IntToStr(n) ==
    IF n < 10 THEN <<DIGITS[n + 1]>>
    ELSE IntToStr(n \div 10) \o <<DIGITS[(n % 10) + 1]>>

\* sep.join(items)
RECURSIVE Join(_, _)
Join(items, sep) ==
    IF items = <<>> THEN <<>>
    ELSE IF Len(items) = 1 THEN items[1]
    ELSE items[1] \o sep \o Join(Tail(items), sep)

----------------------------------------------------------------------------
(* Python values and texts *)

\* a dict is a record, a list a sequence; a value whose type the code probes
\* carries its type
PyDict(v) == [py |-> "dict", v |-> v]

PyList(v) == [py |-> "list", v |-> v]

\* an f-string: its literal text with {} for the values, and the values
FStr(fmt, parts) == [fmt |-> fmt, parts |-> parts]

\* a str value that is used as it is
Plain(s) == FStr("{}", <<s>>)

\* texts a tool may produce
T_PLAIN == <<"M","e","e","t","i","n","g"," ","c","o","v","e","r","e","d"," ","X",","," ","Y",","," ","Z",".">>

T_TASKS == <<"{","\"","a","c","t","i","o","n","a","b","l","e","_","t","a","s","k","s","\"",":"," ","[","\"","a","\"",","," ","\"","b","\"","]","}">>

T_NOTASKS == <<"{","\"","a","c","t","i","o","n","a","b","l","e","_","t","a","s","k","s","\"",":"," ","[","]","}">>

T_OBJ == <<"{","}">>

T_ARRAY == <<"[","\"","a","\"","]">>

T_TRUNC == <<"{","\"","a","c","t","i","o","n","a","b","l","e","_","t","a","s","k","s","\"",":"," ","[","\"","a","\"">>

T_POINTS == <<"-"," ","o","n","e","\n","-"," ","t","w","o">>

T_NULL == <<"n","u","l","l">>

T_NUMTASKS == <<"{","\"","a","c","t","i","o","n","a","b","l","e","_","t","a","s","k","s","\"",":"," ","5","}">>

\* one task, with the escape of a line break inside
T_MULTILINE == <<"{","\"","a","c","t","i","o","n","a","b","l","e","_","t","a","s","k","s","\"",":"," ","[","\"","a","\\","n","b","\"","]","}">>

\* json.loads on these texts: the value, or the message of the JSONDecodeError
json_loads(text) ==
    IF text = T_TASKS
    THEN [ok |-> TRUE, value |-> PyDict([actionable_tasks |-> PyList(<< <<"a">>, <<"b">> >>)])]
    ELSE IF text = T_NOTASKS
    THEN [ok |-> TRUE, value |-> PyDict([actionable_tasks |-> PyList(<<>>)])]
    ELSE IF text = T_MULTILINE
    THEN [ok |-> TRUE, value |-> PyDict([actionable_tasks |-> PyList(<< <<"a","\n","b">> >>)])]
    ELSE IF text = T_NUMTASKS
    THEN [ok |-> TRUE, value |-> PyDict([actionable_tasks |-> [py |-> "int", v |-> 5]])]
    ELSE IF text = T_NULL
    THEN [ok |-> TRUE, value |-> [py |-> "NoneType", v |-> <<>>]]
    ELSE IF text = T_OBJ
    THEN [ok |-> TRUE, value |-> PyDict(<<>>)]
    ELSE IF text = T_ARRAY
    THEN [ok |-> TRUE, value |-> PyList(<< <<"a">> >>)]
    ELSE IF text = T_TRUNC
    THEN [ok |-> FALSE, msg |-> "Expecting ',' delimiter: line 1 column 26 (char 25)"]
    ELSE [ok |-> FALSE, msg |-> "Expecting value: line 1 column 1 (char 0)"]

----------------------------------------------------------------------------
(* format_response *)

\* result.get("output", ""), result being a dict
GetOutput(result) ==
    IF "output" \in DOMAIN result.v THEN result.v.output ELSE <<>>

\* variant of error_envelope: without the  except Exception  clause the
\* exception leaves format_response
error_envelope_Raise(tool_name, result, transcript, err) ==
    [type     |-> "raised",
     title    |-> FStr("", <<>>),
     content  |-> FStr("{}", <<err>>),
     metadata |-> [tool_used |-> tool_name]]

\* the envelope of the  except Exception  clause of format_response
error_envelope(tool_name, result, transcript, err) ==
    [type     |-> "error",
     title    |-> FStr("U+274C Processing Error", <<>>),
     content  |-> FStr("An error occurred while formatting the response: {}\n\nRaw result: {}",
                       <<err, result>>),
     metadata |-> [tool_used |-> tool_name,
                   transcript_length |-> TextLen(transcript),
                   error |-> err]]

summary_envelope(content, transcript) ==
    [type     |-> "summary",
     title    |-> FStr("U+1F4CB Meeting Summary", <<>>),
     content  |-> content,
     metadata |-> [tool_used |-> SUMMARIZE_TRANSCRIPT,
                   transcript_length |-> TextLen(transcript)]]

key_points_envelope(content, transcript, points_count) ==
    [type     |-> "key_points",
     title    |-> FStr("U+1F3AF Key Points & Insights", <<>>),
     content  |-> content,
     metadata |-> [tool_used |-> HIGHLIGHT_KEY_POINTS,
                   transcript_length |-> TextLen(transcript),
                   points_count |-> points_count]]

tasks_envelope(content, transcript, tasks_count) ==
    [type     |-> "tasks",
     title    |-> FStr("U+1F4DD Action Items & Tasks", <<>>),
     content  |-> content,
     metadata |-> [tool_used |-> EXTRACT_TASKS,
                   transcript_length |-> TextLen(transcript),
                   tasks_count |-> tasks_count]]

NO_ATTRIBUTE_GET == "'list' object has no attribute 'get'"

\* variant of formatted_task: the tasks are numbered from 0
formatted_task_FromZero(i, task) == IntToStr(i - 1) \o <<".", " ">> \o task

\* f"{i}. {task}"  for the i-th task of  enumerate(actionable_tasks, 1)
formatted_task(i, task) == IntToStr(i) \o <<".", " ">> \o task

\* the branch of format_response for extract_tasks, the output not empty
format_tasks(output, result, transcript) ==
    LET parsed == json_loads(output)
    IN  IF ~parsed.ok
        THEN tasks_envelope(
                 FStr("Error parsing task response: {}\n\nRaw output: {}",
                      <<parsed.msg, output>>),
                 transcript, 0)
        ELSE IF parsed.value.py # "dict"
        THEN error_envelope(EXTRACT_TASKS, result, transcript,
                 IF parsed.value.py = "list" THEN NO_ATTRIBUTE_GET
                 ELSE "'NoneType' object has no attribute 'get'")
        ELSE LET actionable_tasks ==
                     IF "actionable_tasks" \in DOMAIN parsed.value.v
                     THEN parsed.value.v.actionable_tasks ELSE PyList(<<>>)
                 formatted_tasks ==
                     [i \in 1..Len(actionable_tasks.v) |->
                         formatted_task(i, actionable_tasks.v[i])]
             IN  IF \/ actionable_tasks.py = "list" /\ actionable_tasks.v = <<>>
                    \/ actionable_tasks.py = "int" /\ actionable_tasks.v = 0
                 THEN tasks_envelope(FStr("No tasks identified", <<>>), transcript, 0)
                 ELSE IF actionable_tasks.py = "int"
                 THEN error_envelope(EXTRACT_TASKS, result, transcript,
                                     "'int' object is not iterable")
                 ELSE tasks_envelope(Plain(Join(formatted_tasks, <<"\n">>)),
                                     transcript, Len(actionable_tasks.v))

\* variant of empty_output: an empty output is reported as an error
empty_output_Error(tool_name, transcript) ==
    [type     |-> "error",
     title    |-> FStr("U+274C Processing Error", <<>>),
     content  |-> FStr("empty output", <<>>),
     metadata |-> [tool_used |-> tool_name,
                   transcript_length |-> TextLen(transcript)]]

\* the three  if not output  branches of format_response
empty_output(tool_name, transcript) ==
    IF tool_name = SUMMARIZE_TRANSCRIPT
    THEN summary_envelope(FStr("No summary generated", <<>>), transcript)
    ELSE IF tool_name = HIGHLIGHT_KEY_POINTS
    THEN key_points_envelope(FStr("No key points identified", <<>>), transcript, 0)
    ELSE tasks_envelope(FStr("No tasks identified", <<>>), transcript, 0)

\* format_response(tool_name, result, transcript)
format_response(tool_name, result, transcript) ==
    IF tool_name \notin {SUMMARIZE_TRANSCRIPT, HIGHLIGHT_KEY_POINTS, EXTRACT_TASKS}
    THEN [type     |-> "unknown",
          title    |-> FStr("U+1F527 {}", <<Title(Replace(tool_name, <<"_">>, <<" ">>))>>),
          content  |-> FStr("{!s}", <<result>>),
          metadata |-> [tool_used |-> tool_name,
                        transcript_length |-> TextLen(transcript)]]
    ELSE IF result.py # "dict"
    THEN error_envelope(tool_name, result, transcript, NO_ATTRIBUTE_GET)
    ELSE
    LET output == GetOutput(result)
    IN  IF output = <<>>
        THEN empty_output(tool_name, transcript)
        ELSE IF tool_name = SUMMARIZE_TRANSCRIPT
        THEN summary_envelope(Plain(output), transcript)
        ELSE IF tool_name = HIGHLIGHT_KEY_POINTS
        THEN key_points_envelope(
                 Plain(Replace(output, <<"-", " ">>, <<"U+2022", " ">>)),
                 transcript, Count(output, <<"-">>))
        ELSE format_tasks(output, result, transcript)

----------------------------------------------------------------------------
(* POST /ask up to the call of the sub-agent *)

\* limits of AskInput
TRANSCRIPT_MIN_LENGTH == 10

TRANSCRIPT_MAX_LENGTH == 10000

PROMPT_MIN_LENGTH == 1

PROMPT_MAX_LENGTH == 500

\* the field constraints of AskInput, applied before ask() is entered; the
\* prompt is given by its length
AskInput(transcript, prompt) ==
    /\ TextLen(transcript) >= TRANSCRIPT_MIN_LENGTH
    /\ TextLen(transcript) <= TRANSCRIPT_MAX_LENGTH
    /\ prompt >= PROMPT_MIN_LENGTH
    /\ prompt <= PROMPT_MAX_LENGTH

\* LLMConfig.MAX_TOKENS
MAX_TOKENS == 256

\* LLMConfig.TEMPERATURE = 0.7; temperatures are counted in tenths
TEMPERATURE == 7

\* the keyword arguments of the call_llm in ask(): max_tokens=32, temperature=0
ASK_MAX_TOKENS == 32

ASK_TEMPERATURE == 0

\* an Optional argument: None, or a number
None == [some |-> FALSE, v |-> 0]

Some(n) == [some |-> TRUE, v |-> n]

\* the Python expression  x or default  on an Optional number: None and 0 are falsy
py_or(x, default) == IF x.some /\ x.v # 0 THEN x.v ELSE default

\* the max_tokens and temperature that call_llm passes to the OpenAI client
llm_request(max_tokens, temperature) ==
    [sent        |-> TRUE,
     max_tokens  |-> py_or(max_tokens, MAX_TOKENS),
     temperature |-> py_or(temperature, TEMPERATURE)]

NoLLMRequest == [sent |-> FALSE]

\* call_llm: the stripped content of the completion, or an HTTPException
call_llm(reply) ==
    IF reply.kind = "rate_limit"
    THEN [raised |-> TRUE, status_code |-> 429]
    ELSE IF reply.kind = "authentication"
    THEN [raised |-> TRUE, status_code |-> 401]
    ELSE IF reply.kind = "timeout"
    THEN [raised |-> TRUE, status_code |-> 500]
    ELSE IF reply.kind = "no_content"
    THEN [raised |-> TRUE, status_code |-> 500]
    ELSE [raised |-> FALSE, content |-> Strip(reply.content)]

\* variant of select_token: the whole stripped output is taken as the name
select_token_Whole(content) == Strip(content)

\* tool_name.strip(), then  tool_name.split()[0] if tool_name else ""
select_token(content) ==
    LET stripped == Strip(content)
    IN  IF stripped = <<>> THEN <<>> ELSE Split(stripped)[1]

\* the prompt lines  "- {name}: {description}"  built from tool_registry.values()
tool_list(reg) ==
    [i \in 1..Len(reg) |->
        [name        |-> reg[i].value.name,
         description |-> IF "description" \in DOMAIN reg[i].value
                         THEN reg[i].value.description ELSE ""]]

\* variant of unknown_tool_error: the registered names are left out
unknown_tool_error_NoList(tool_name, reg) ==
    [error |-> [fmt  |-> "Tool '{}' not found in registry. Available tools: {}",
                name |-> tool_name,
                keys |-> <<>>]]

\* the dict returned when the selected name is not in the registry
unknown_tool_error(tool_name, reg) ==
    [error |-> [fmt  |-> "Tool '{}' not found in registry. Available tools: {}",
                name |-> tool_name,
                keys |-> DictKeys(reg)]]

\* the arguments sent to the sub-agent
build_payload(tool, transcript) ==
    LET parameters == IF "parameters" \in DOMAIN tool THEN tool.parameters
                      ELSE [properties |-> {}]
        properties == IF "properties" \in DOMAIN parameters THEN parameters.properties
                      ELSE {}
    IN  IF "context" \in properties
        THEN [transcript |-> transcript, context |-> "end of week"]
        ELSE [transcript |-> transcript]

\* determine_sub_agent_url: the base URL chosen by keyword, or a ValueError
determine_sub_agent_url(tool_name) ==
    IF Contains(KW_SUMMARIZE, tool_name) \/ Contains(KW_HIGHLIGHT, tool_name)
    THEN [raised |-> FALSE, url |-> SUMMARIZER_URL]
    ELSE IF Contains(KW_EXTRACT, tool_name) \/ Contains(KW_ASSIGN, tool_name)
    THEN [raised |-> FALSE, url |-> TASK_EXTRACTOR_URL]
    ELSE [raised |-> TRUE, url |-> ""]

\* variant of registry_after_call_llm: populate_tool_registry began meanwhile
registry_after_call_llm_Cleared(reg) == <<>>

\* the dict that ask() reads after  await call_llm(...) : call_llm has no await
\* of its own (the OpenAI client is called synchronously), so the event loop
\* runs nothing else and the dict is the one read for the prompt
registry_after_call_llm(reg) == reg

NoReply == [kind |-> "none"]

NoCall == [url |-> "", name |-> <<>>]

NoResponse == [status_code |-> 0]

NoResult == [kind |-> "none"]

\* the fields of a request that every outcome sets; seen, owners and
\* refreshing are history: the registry the handler read, the endpoints that
\* had registered its tools, and the pass that was in progress then (0: none)
Request(transcript, prompt) ==
    [transcript |-> transcript, prompt |-> prompt,
     seen |-> <<>>, owners |-> <<>>, refreshing |-> 0,
     candidates |-> <<>>, reply |-> NoReply, llm_calls |-> 0,
     llm_request |-> NoLLMRequest,
     tool_name |-> <<>>, call |-> NoCall, invokes |-> 0,
     result |-> NoResult, response |-> NoResponse]

\* ask() from the arrival of the request to its first await that suspends,
\* the POST to the sub-agent: call_llm calls the OpenAI client synchronously,
\* so nothing else runs in the event loop before that.  The result is the
\* request record, "done" with its response or "invoking".
AskSync(reg, owners, refreshing, transcript, prompt, reply) ==
    LET req == Request(transcript, prompt)
    IN
    IF ~AskInput(transcript, prompt)
    THEN [req EXCEPT !.response = [status_code |-> 422, detail |-> "validation error"]]
            @@ [pc |-> "done", phases |-> <<"Start", "Failed">>]
    ELSE
    LET asked == [req EXCEPT !.seen = reg, !.owners = owners,
                             !.refreshing = refreshing,
                             !.candidates = tool_list(reg),
                             !.reply = reply, !.llm_calls = 1,
                             !.llm_request = llm_request(Some(ASK_MAX_TOKENS),
                                                         Some(ASK_TEMPERATURE))]
        llm   == call_llm(reply)
    IN
    IF llm.raised
    THEN [asked EXCEPT !.response = [status_code |-> llm.status_code,
                                     detail |-> "classifier call failed"]]
            @@ [pc |-> "done", phases |-> <<"Start", "ClassifierPending", "Failed">>]
    ELSE
    LET tool_name == select_token(llm.content)
        chosen    == [asked EXCEPT !.tool_name = tool_name]
        now       == registry_after_call_llm(reg)
    IN
    IF ~DictHas(now, tool_name)
    THEN [chosen EXCEPT !.response = [status_code |-> 200,
                                      body |-> unknown_tool_error(tool_name, now)]]
            @@ [pc |-> "done",
                phases |-> <<"Start", "ClassifierPending", "ToolResolved", "Failed">>]
    ELSE
    LET tool    == DictGet(now, tool_name)
        payload == build_payload(tool, transcript)
        owner   == determine_sub_agent_url(tool_name)
    IN
    IF owner.raised
    THEN [chosen EXCEPT !.response = [status_code |-> 500,
                                      detail |-> "Failed to process request: Unknown tool type"]]
            @@ [pc |-> "done",
                phases |-> <<"Start", "ClassifierPending", "ToolResolved",
                             "ProviderInvoked", "Failed">>]
    ELSE [chosen EXCEPT !.call = [url |-> owner.url, name |-> tool_name,
                                  arguments |-> payload],
                        !.invokes = 1]
            @@ [pc |-> "invoking",
                phases |-> <<"Start", "ClassifierPending", "ToolResolved",
                             "ProviderInvoked">>]

----------------------------------------------------------------------------
(* POST /ask from the answer of the sub-agent *)

IMAGE_ITEM == [type |-> "image", data |-> "x"]

STR_IMAGE_ITEM == <<"{","'","t","y","p","e","'",":"," ","'","i","m","a","g","e","'",","," ","'","d","a","t","a","'",":"," ","'","x","'","}">>

\* str() of a content item
py_str(item) == IF item = IMAGE_ITEM THEN STR_IMAGE_ITEM ELSE <<>>

\* variant of invoke_failed: raise_for_status is not called
invoke_failed_NoStatusCheck(resp) == resp.kind \in {"unreachable", "timeout"}

\* client.post raises (no answer in 30 seconds, no connection) or
\* raise_for_status raises
invoke_failed(resp) == resp.kind \in {"unreachable", "timeout", "http_error"}

\* variant of ask_extract: the body is taken as the result, as it is
ask_extract_WholeBody(resp) ==
    IF "body" \notin DOMAIN resp THEN [raised |-> TRUE]
    ELSE [raised |-> FALSE, internal_result |-> resp.body]

\* the MCP content of the answer turned into the internal result; raised
\* stands for the exceptions that the inner  except Exception  catches
ask_extract(resp) ==
    IF "body" \notin DOMAIN resp THEN [raised |-> TRUE]
    ELSE
    LET result == resp.body
    IN  IF result.py = "dict" /\ "content" \in DOMAIN result.v /\ result.v.content # <<>>
        THEN LET mcp_content == result.v.content[1]
             IN  IF "type" \in DOMAIN mcp_content /\ mcp_content.type = "text"
                 THEN IF "text" \in DOMAIN mcp_content
                      THEN [raised |-> FALSE,
                            internal_result |-> PyDict([output |-> mcp_content.text])]
                      ELSE [raised |-> TRUE]
                 ELSE [raised |-> FALSE,
                       internal_result |-> PyDict([output |-> py_str(mcp_content)])]
        ELSE [raised |-> FALSE, internal_result |-> result]

\* variant of invoke_failure: the POST is sent a second time
invoke_failure_Retry(answered) ==
    IF answered.invokes < 2
    THEN [answered EXCEPT !.pc = "invoking", !.invokes = @ + 1]
    ELSE [answered EXCEPT !.response = [status_code |-> 500,
                                        detail |-> "Failed to process request"],
                          !.phases = Append(@, "Failed")]

\* the outer  except Exception  clause of ask(): the exception of the POST
\* becomes an HTTPException with status 500, nothing is sent again
invoke_failure(answered) ==
    [answered EXCEPT !.response = [status_code |-> 500,
                                   detail |-> "Failed to process request"],
                     !.phases = Append(@, "Failed")]

\* ask() from the answer of the sub-agent to its response
AskResume(req, resp) ==
    LET answered == [req EXCEPT !.pc = "done", !.result = resp]
    IN
    IF invoke_failed(resp)
    THEN invoke_failure(answered)
    ELSE
    LET extracted == ask_extract(resp)
    IN  IF extracted.raised
        THEN [answered EXCEPT
                 !.response = [status_code |-> 200,
                               body |-> [error |-> [fmt |-> "Failed to parse response from sub-agent."],
                                         raw   |-> resp]],
                 !.phases = Append(@, "Failed")]
        ELSE [answered EXCEPT
                 !.response = [status_code |-> 200,
                               body |-> format_response(req.tool_name,
                                                        extracted.internal_result,
                                                        req.transcript)],
                 !.phases = @ \o <<"Normalized", "Done">>]

----------------------------------------------------------------------------
(* State *)

VARIABLES
    tool_registry,   \* the module-level dict  tool name -> tool definition
    pc_refresh,      \* "idle", or "fetching" while populate_tool_registry awaits
    endpoint_idx,    \* the endpoint populate_tool_registry is waiting for
    passes,          \* number of populate_tool_registry calls started
    discovery,       \* history: response and fetch outcome per endpoint, this pass
    registered_by,   \* history: tool name -> endpoint whose tool is stored
    completed,       \* history: the registry at the end of every finished pass
    requests,        \* the request to /ask in flight, with its history
    health,          \* the response of GET /health being sent, if any
    formatting,      \* a call of format_response: arguments, then the envelope
    serving,         \* how the endpoints and the classifier behave, where fixed
    provider,        \* a request to a sub-agent: its inputs, then its response
    tester           \* a run of MCPComplianceTester.run_all_tests

vars == <<tool_registry, pc_refresh, endpoint_idx, passes, discovery,
          registered_by, completed, requests, health, formatting, serving, provider, tester>>

\* requests share no state that a request writes: one at a time is modelled
Slots == {1}

NotFormatting == [pc |-> "none"]

NoHealth == [status |-> "none"]

\* the behaviour of the environment is not fixed: every call may end in any way
NotServing == [discovery |-> <<>>]

NoProvider == [pc |-> "none"]

NoTester == [pc |-> "none"]

Idle == [pc |-> "idle"]

NotFetched == [kind |-> "none"]

InitRegistry ==
    /\ tool_registry = <<>>
    /\ pc_refresh = "idle"
    /\ endpoint_idx = 0
    /\ passes = 0
    /\ discovery = [p \in Endpoints |-> NotFetched]
    /\ registered_by = <<>>
    /\ completed = <<>>
    /\ requests = [s \in Slots |-> Idle]
    /\ health = NoHealth
    /\ formatting = NotFormatting
    /\ serving = NotServing
    /\ provider = NoProvider
    /\ tester = NoTester

\* variant of PopulateStart: the last entry of the dict survives the clearing
PopulateStart_KeepLast ==
    /\ pc_refresh = "idle"
    /\ passes < MaxRefresh
    /\ tool_registry' = IF tool_registry = <<>> THEN <<>>
                        ELSE <<tool_registry[Len(tool_registry)]>>
    /\ registered_by' = <<>>
    /\ pc_refresh' = "fetching"
    /\ endpoint_idx' = 1
    /\ passes' = passes + 1
    /\ discovery' = [p \in Endpoints |-> NotFetched]
    /\ UNCHANGED <<completed, requests, health, formatting, serving, provider, tester>>

\* populate_tool_registry up to its first await: the dict is cleared in place.
\* The source calls it from the startup hook; as a coroutine of the module it
\* is modelled as an operation that can be called again, one call at a time,
\* also while requests are served.
PopulateStart ==
    /\ pc_refresh = "idle"
    /\ passes < MaxRefresh
    /\ tool_registry' = <<>>
    /\ registered_by' = <<>>
    /\ pc_refresh' = "fetching"
    /\ endpoint_idx' = 1
    /\ passes' = passes + 1
    /\ discovery' = [p \in Endpoints |-> NotFetched]
    /\ UNCHANGED <<completed, requests, health, formatting, serving, provider, tester>>

\* the awaited endpoint answers: its tools are stored, and the loop goes to
\* the next endpoint or populate_tool_registry returns
PopulateStep(resp) ==
    /\ pc_refresh = "fetching"
    /\ LET outcome == fetch_tools_from_plugin(resp)
           reg     == RegistryAfter(tool_registry, outcome)
           next    == LoopAfter(endpoint_idx, outcome)
       IN  /\ tool_registry' = reg
           /\ registered_by' =
                 IF outcome.raised THEN registered_by
                 ELSE RegisterOwner(registered_by, outcome.tools, endpoint_idx)
           /\ discovery' = [discovery EXCEPT ![endpoint_idx] =
                               [response |-> resp, outcome |-> outcome]]
           /\ IF next = 0
              THEN /\ pc_refresh' = "idle"
                   /\ endpoint_idx' = 0
                   /\ completed' = Append(completed, reg)
              ELSE /\ pc_refresh' = "fetching"
                   /\ endpoint_idx' = next
                   /\ UNCHANGED completed
    /\ UNCHANGED <<passes, requests, health, formatting, serving, provider, tester>>

----------------------------------------------------------------------------
(* Inputs of a request *)

\* transcripts around the limits of AskInput: empty, ten blanks, nine and ten
\* characters, and one character more than the longest accepted one
Transcripts ==
    { Text(0, 0, 0), Text(10, 0, 0), Text(0, 9, 0), Text(0, 10, 0),
      Text(0, 10001, 0) }

\* prompt lengths around the limits of AskInput
Prompts == {0, 1, 501}

OUT_PLEASE == <<"\n"," ","s","u","m","m","a","r","i","z","e","_","t","r","a","n","s","c","r","i","p","t"," "," ","p","l","e","a","s","e">>

OUT_CAPITAL == <<"S","u","m","m","a","r","i","z","e","_","t","r","a","n","s","c","r","i","p","t">>

OUT_PREFIX == <<"s","u","m","m","a","r","i","z","e">>

OUT_NONEXISTENT == <<"n","o","n","e","x","i","s","t","e","n","t","_","t","o","o","l">>

OUT_BLANK == <<" ","\n"," ">>

\* what the classifier answers: an error of the OpenAI client, a completion
\* without content, or a completion with free text
LLMReplies ==
    { [kind |-> "rate_limit"], [kind |-> "authentication"], [kind |-> "timeout"],
      [kind |-> "no_content"] }
    \cup { [kind |-> "ok", content |-> c] :
              c \in { SUMMARIZE_TRANSCRIPT, EXTRACT_TASKS, FOO, OUT_PLEASE,
                      OUT_CAPITAL, OUT_PREFIX, OUT_NONEXISTENT, OUT_BLANK, <<>> } }

\* what the sub-agent answers to POST /invoke: nothing, an error status, a
\* body that is not JSON, or a JSON body
InvokeResponses ==
    << [kind |-> "unreachable"],
       [kind |-> "timeout"],
       [kind |-> "http_error", body |-> PyDict([detail |-> "Unknown tool"])],
       [kind |-> "not_json"],
       [kind |-> "json", body |-> PyDict([content |-> <<[type |-> "text", text |-> T_PLAIN]>>])],
       [kind |-> "json", body |-> PyDict([content |-> <<[type |-> "text", text |-> <<>>]>>])],
       [kind |-> "json", body |-> PyDict([content |-> <<[type |-> "text", text |-> T_TASKS]>>])],
       [kind |-> "json", body |-> PyDict([content |-> <<[type |-> "text", text |-> T_TRUNC]>>])],
       [kind |-> "json", body |-> PyDict([content |-> <<[type |-> "text"]>>])],
       [kind |-> "json", body |-> PyDict([content |-> <<IMAGE_ITEM>>])],
       [kind |-> "json", body |-> PyDict([content |-> <<>>])],
       [kind |-> "json", body |-> PyList(<<>>)] >>

----------------------------------------------------------------------------
(* Actions of a request *)

\* a request arrives and runs to its response or to the POST to the sub-agent
AskRun(s, transcript, prompt, reply) ==
    /\ requests[s] = Idle
    /\ health = NoHealth
    /\ requests' = [requests EXCEPT ![s] =
          AskSync(tool_registry, registered_by,
                  IF pc_refresh = "fetching" THEN passes ELSE 0,
                  transcript, prompt, reply)]
    /\ UNCHANGED <<tool_registry, pc_refresh, endpoint_idx, passes, discovery,
                   registered_by, completed, health, formatting, serving, provider, tester>>

\* variant of AskInvokeReturn: a tool whose call failed is dropped from the dict
AskInvokeReturn_Evict(s, resp) ==
    /\ requests[s] # Idle
    /\ requests[s].pc = "invoking"
    /\ requests' = [requests EXCEPT ![s] = AskResume(requests[s], resp)]
    /\ tool_registry' =
          IF invoke_failed(resp)
          THEN SelectSeq(tool_registry, LAMBDA e : e.key # requests[s].tool_name)
          ELSE tool_registry
    /\ UNCHANGED <<pc_refresh, endpoint_idx, passes, discovery,
                   registered_by, completed, health, formatting, serving, provider, tester>>

\* the sub-agent answers, or the POST fails, and ask() runs to its response
AskInvokeReturn(s, resp) ==
    /\ requests[s] # Idle
    /\ requests[s].pc = "invoking"
    /\ requests' = [requests EXCEPT ![s] = AskResume(requests[s], resp)]
    /\ UNCHANGED <<tool_registry, pc_refresh, endpoint_idx, passes, discovery,
                   registered_by, completed, health, formatting, serving, provider, tester>>

\* variant of AskReturn: a request that failed takes the waiting ones with it
AskReturn_Fatal(s) ==
    /\ requests[s] # Idle
    /\ requests[s].pc = "done"
    /\ requests' =
          [o \in DOMAIN requests |->
              IF o = s THEN Idle
              ELSE IF /\ requests[s].response.status_code = 500
                      /\ requests[o] # Idle
                      /\ requests[o].pc = "invoking"
              THEN [requests[o] EXCEPT !.pc = "done",
                                       !.response = requests[s].response,
                                       !.phases = Append(@, "Failed")]
              ELSE requests[o]]
    /\ UNCHANGED <<tool_registry, pc_refresh, endpoint_idx, passes, discovery,
                   registered_by, completed, health, formatting, serving, provider, tester>>

\* the response has been sent, the request is over
AskReturn(s) ==
    /\ requests[s] # Idle
    /\ requests[s].pc = "done"
    /\ requests' = [requests EXCEPT ![s] = Idle]
    /\ UNCHANGED <<tool_registry, pc_refresh, endpoint_idx, passes, discovery,
                   registered_by, completed, health, formatting, serving, provider, tester>>

----------------------------------------------------------------------------
(* GET /health *)

\* the dict health_check returns
health_check(reg) ==
    [status |-> "healthy", agent |-> "super",
     tools_registered |-> IntToStr(Len(reg))]

\* GET /health arrives and is answered; as with /ask, one request at a time
HealthCheck ==
    /\ \A s \in Slots : requests[s] = Idle
    /\ health = NoHealth
    /\ health' = health_check(tool_registry)
    /\ UNCHANGED <<tool_registry, pc_refresh, endpoint_idx, passes, discovery,
                   registered_by, completed, requests, formatting, serving, provider, tester>>

\* the response has been sent
HealthReturn ==
    /\ health # NoHealth
    /\ health' = NoHealth
    /\ UNCHANGED <<tool_registry, pc_refresh, endpoint_idx, passes, discovery,
                   registered_by, completed, requests, formatting, serving, provider, tester>>

----------------------------------------------------------------------------
(* The registry alone: populate_tool_registry called again and again *)

NextRegistry ==
    \/ PopulateStart
    \/ \E resp \in DiscoveryResponses(endpoint_idx) : PopulateStep(resp)

SpecRegistry == InitRegistry /\ [][NextRegistry]_vars

----------------------------------------------------------------------------
(* populate_tool_registry called again while the endpoints answer as before *)

InitIdempotent ==
    /\ tool_registry = <<>>
    /\ pc_refresh = "idle"
    /\ endpoint_idx = 0
    /\ passes = 0
    /\ discovery = [p \in Endpoints |-> NotFetched]
    /\ registered_by = <<>>
    /\ completed = <<>>
    /\ requests = [s \in Slots |-> Idle]
    /\ health = NoHealth
    /\ formatting = NotFormatting
    /\ \E r1 \in DiscoveryResponses(1), r2 \in DiscoveryResponses(2) :
          serving = [discovery |-> <<r1, r2>>]
    /\ provider = NoProvider
    /\ tester = NoTester

\* the awaited endpoint answers what it always answers
PopulateStepSame ==
    /\ pc_refresh = "fetching"
    /\ PopulateStep(serving.discovery[endpoint_idx])

NextIdempotent ==
    \/ PopulateStart
    \/ PopulateStepSame

SpecIdempotent == InitIdempotent /\ [][NextIdempotent]_vars

----------------------------------------------------------------------------
(* The super agent: requests to /ask while the registry is populated *)

Init == InitRegistry

Next ==
    \/ PopulateStart
    \/ \E resp \in ManifestResponses(endpoint_idx) : PopulateStep(resp)
    \/ \E s \in Slots, transcript \in Transcripts, prompt \in Prompts,
          reply \in LLMReplies : AskRun(s, transcript, prompt, reply)
    \/ \E s \in Slots, i \in 1..Len(InvokeResponses) :
          AskInvokeReturn(s, InvokeResponses[i])
    \/ \E s \in Slots : AskReturn(s)
    \/ HealthCheck
    \/ HealthReturn

Spec == Init /\ [][Next]_vars

----------------------------------------------------------------------------
(* The super agent next to endpoints and a classifier that may never answer *)

HUNG == [kind |-> "hung"]

\* httpx.AsyncClient(timeout=10.0): a GET that gets no answer ends as a timeout
discovery_timeout(resp) == IF resp = HUNG THEN [kind |-> "timeout"] ELSE resp

\* variant of invoke_timeout: the POST has no timeout
invoke_timeout_None(resp) == resp

\* httpx.AsyncClient(timeout=30.0): a POST that gets no answer ends as a timeout
invoke_timeout(resp) == IF resp = HUNG THEN [kind |-> "timeout"] ELSE resp

\* timeout=LLMConfig.TIMEOUT: a completion that does not come ends as a timeout
llm_timeout(reply) == IF reply = HUNG THEN [kind |-> "timeout"] ELSE reply

LiveInvokes ==
    { HUNG,
      [kind |-> "json", body |-> PyDict([content |-> <<[type |-> "text", text |-> T_PLAIN]>>])] }

LiveReplies ==
    { HUNG,
      [kind |-> "ok", content |-> SUMMARIZE_TRANSCRIPT],
      [kind |-> "ok", content |-> OUT_NONEXISTENT] }

LiveDiscovery(p) ==
    { HUNG,
      [kind |-> "ok", data |-> [tools |-> Manifest(p), resources |-> <<>>]] }

\* each endpoint and the classifier either answer or never answer, for good
InitLive ==
    /\ tool_registry = <<>>
    /\ pc_refresh = "idle"
    /\ endpoint_idx = 0
    /\ passes = 0
    /\ discovery = [p \in Endpoints |-> NotFetched]
    /\ registered_by = <<>>
    /\ completed = <<>>
    /\ requests = [s \in Slots |-> Idle]
    /\ health = NoHealth
    /\ formatting = NotFormatting
    /\ \E r1 \in LiveDiscovery(1), r2 \in LiveDiscovery(2),
          reply \in LiveReplies, resp \in LiveInvokes :
          serving = [discovery |-> <<r1, r2>>, classifier |-> reply, invoke |-> resp]
    /\ provider = NoProvider
    /\ tester = NoTester

\* the GET of the awaited endpoint ends, with its answer or with the timeout
LiveDiscover ==
    /\ pc_refresh = "fetching"
    /\ discovery_timeout(serving.discovery[endpoint_idx]) # HUNG
    /\ PopulateStep(discovery_timeout(serving.discovery[endpoint_idx]))

\* a request arrives; the classifier call ends, with its answer or the timeout
LiveAsk(s) ==
    /\ llm_timeout(serving.classifier) # HUNG
    /\ AskRun(s, Text(0, 10, 0), 1, llm_timeout(serving.classifier))

\* the POST to the sub-agent ends, with its answer or with the timeout
LiveInvoke(s) ==
    /\ invoke_timeout(serving.invoke) # HUNG
    /\ AskInvokeReturn(s, invoke_timeout(serving.invoke))

NextLive ==
    \/ PopulateStart
    \/ LiveDiscover
    \/ \E s \in Slots : LiveAsk(s)
    \/ \E s \in Slots : LiveInvoke(s)
    \/ \E s \in Slots : AskReturn(s)

\* the event loop resumes a coroutine whose awaited call has ended
SpecLive ==
    /\ InitLive
    /\ [][NextLive]_vars
    /\ WF_vars(LiveDiscover)
    /\ \A s \in Slots : WF_vars(LiveInvoke(s))

----------------------------------------------------------------------------
(* Two requests to /ask at a time, after the registry has been populated *)

PairSlots == {1, 2}

PairTranscripts == {Text(0, 9, 0), Text(0, 10, 0)}

PairReplies ==
    { [kind |-> "rate_limit"],
      [kind |-> "ok", content |-> SUMMARIZE_TRANSCRIPT],
      [kind |-> "ok", content |-> FOO],
      [kind |-> "ok", content |-> OUT_NONEXISTENT] }

PairInvokes ==
    << [kind |-> "timeout"],
       [kind |-> "not_json"],
       [kind |-> "json", body |-> PyDict([content |-> <<[type |-> "text", text |-> T_PLAIN]>>])] >>

InitPair ==
    /\ tool_registry = <<>>
    /\ pc_refresh = "idle"
    /\ endpoint_idx = 0
    /\ passes = 0
    /\ discovery = [p \in Endpoints |-> NotFetched]
    /\ registered_by = <<>>
    /\ completed = <<>>
    /\ requests = [s \in PairSlots |-> Idle]
    /\ health = NoHealth
    /\ formatting = NotFormatting
    /\ serving = NotServing
    /\ provider = NoProvider
    /\ tester = NoTester

\* the call of populate_tool_registry by the startup hook
PairStartup ==
    /\ passes = 0
    /\ PopulateStart

\* requests are served once the startup hook has returned
PairAsk(s, transcript, reply) ==
    /\ pc_refresh = "idle"
    /\ passes > 0
    /\ AskRun(s, transcript, 1, reply)

NextPair ==
    \/ PairStartup
    \/ \E resp \in ManifestResponses(endpoint_idx) : PopulateStep(resp)
    \/ \E s \in PairSlots, transcript \in PairTranscripts, reply \in PairReplies :
          PairAsk(s, transcript, reply)
    \/ \E s \in PairSlots, i \in 1..Len(PairInvokes) :
          AskInvokeReturn(s, PairInvokes[i])
    \/ \E s \in PairSlots : AskReturn(s)

SpecPair == InitPair /\ [][NextPair]_vars

----------------------------------------------------------------------------
(* The sub-agents: summarizer (endpoint 1) and task extractor (endpoint 2) *)

\* the inputSchema that every tool of the two sub-agents declares
TRANSCRIPT_SCHEMA ==
    PyDict([type       |-> "object",
            properties |-> [transcript |-> [type |-> "string",
                                            description |-> "The meeting transcript to process",
                                            minLength |-> 10,
                                            maxLength |-> 10000]],
            required   |-> <<"transcript">>])

\* variant of discover: the tools are sent without their inputSchema
discover_NoSchema(p) ==
    [tools |->
        IF p = 1
        THEN << [name |-> SUMMARIZE_TRANSCRIPT,
                 description |-> "Summarizes a transcript into a short paragraph."],
                [name |-> HIGHLIGHT_KEY_POINTS,
                 description |-> "Extracts 3-5 main insights from a transcript as bullet points."] >>
        ELSE << [name |-> EXTRACT_TASKS,
                 description |-> "Finds actionable tasks mentioned in a transcript and returns them as a JSON list."] >>,
     resources    |-> <<>>,
     capabilities |-> [tools |-> PyDict(<<>>)]]

\* discover() of the two sub-agents: the body of GET /.well-known/mcp.json
discover(p) ==
    [tools |->
        IF p = 1
        THEN << [name |-> SUMMARIZE_TRANSCRIPT,
                 description |-> "Summarizes a transcript into a short paragraph.",
                 inputSchema |-> TRANSCRIPT_SCHEMA],
                [name |-> HIGHLIGHT_KEY_POINTS,
                 description |-> "Extracts 3-5 main insights from a transcript as bullet points.",
                 inputSchema |-> TRANSCRIPT_SCHEMA] >>
        ELSE << [name |-> EXTRACT_TASKS,
                 description |-> "Finds actionable tasks mentioned in a transcript and returns them as a JSON list.",
                 inputSchema |-> TRANSCRIPT_SCHEMA] >>,
     resources    |-> <<>>,
     capabilities |-> [tools |-> PyDict(<<>>)]]

\* the body of POST /invoke as the handler declares it: an object with a
\* name and an arguments object
InvokeRequest(body) == "name" \in DOMAIN body /\ "arguments" \in DOMAIN body

\* variant of validate_transcript: the lengths are taken without strip()
validate_transcript_NoStrip(transcript) ==
    /\ TextLen(transcript) # 0
    /\ TextLen(transcript) >= 10
    /\ TextLen(transcript) <= 10000

\* validate_transcript returns, it raises no ValueError
validate_transcript(transcript) ==
    /\ TextLen(transcript) # 0 /\ transcript.body # 0
    /\ transcript.body >= 10
    /\ TextLen(transcript) <= 10000

\* TranscriptInput(**arguments) is constructed, it raises no ValidationError:
\* the field is there, has 10 to 10000 characters and passes the validator
TranscriptInput(arguments) ==
    /\ "transcript" \in DOMAIN arguments
    /\ TextLen(arguments.transcript) >= 10
    /\ TextLen(arguments.transcript) <= 10000
    /\ validate_transcript(arguments.transcript)

\* variant of HandledTools: invoke_tool of the summarizer has one branch only
HandledTools_OneBranch(p) ==
    IF p = 1 THEN {SUMMARIZE_TRANSCRIPT} ELSE {EXTRACT_TASKS}

\* the names that the if / elif chain of invoke_tool tests for
HandledTools(p) ==
    IF p = 1 THEN {SUMMARIZE_TRANSCRIPT, HIGHLIGHT_KEY_POINTS} ELSE {EXTRACT_TASKS}

\* invoke_tool of sub-agent p on a request body, the LLM answering reply
invoke_tool(p, body, reply) ==
    IF ~InvokeRequest(body)
    THEN [status_code |-> 422, detail |-> "validation error",
          llm_request |-> NoLLMRequest]
    ELSE IF body.name \notin HandledTools(p)
    THEN [status_code |-> 400, detail |-> "Unknown tool",
          llm_request |-> NoLLMRequest]
    ELSE IF ~TranscriptInput(body.arguments)
    THEN [status_code |-> 500, detail |-> "Failed to invoke tool",
          llm_request |-> NoLLMRequest]
    ELSE LET llm == call_llm(reply)
         IN  IF llm.raised
             THEN [status_code |-> llm.status_code, detail |-> "LLM call failed",
                   llm_request |-> llm_request(None, None)]
             ELSE [status_code |-> 200,
                   body |-> PyDict([content |-> <<[type |-> "text", text |-> llm.content]>>]),
                   llm_request |-> llm_request(None, None)]

\* transcripts around the limits of TranscriptInput: empty, blank, too short,
\* long enough only with its outer blanks, long enough, longest, too long
ProviderTranscripts ==
    { Text(0, 0, 0), Text(12, 0, 0), Text(0, 9, 0), Text(3, 5, 3),
      Text(0, 10, 0), Text(1, 9998, 1), Text(0, 10001, 0) }

ProviderArguments ==
    { [transcript |-> tr] : tr \in ProviderTranscripts }
    \cup { [transcript |-> Text(0, 10, 0), context |-> "end of week"],
           [context |-> "end of week"] }

ProviderBodies ==
    { [name |-> n, arguments |-> a] :
         n \in {SUMMARIZE_TRANSCRIPT, HIGHLIGHT_KEY_POINTS, EXTRACT_TASKS, FOO},
         a \in ProviderArguments }
    \cup { [arguments |-> [transcript |-> Text(0, 10, 0)]] }

ProviderReplies ==
    { [kind |-> "rate_limit"], [kind |-> "no_content"],
      [kind |-> "ok", content |-> T_PLAIN], [kind |-> "ok", content |-> <<>>] }

InitProvider ==
    /\ tool_registry = <<>>
    /\ pc_refresh = "idle"
    /\ endpoint_idx = 0
    /\ passes = 0
    /\ discovery = [p \in Endpoints |-> NotFetched]
    /\ registered_by = <<>>
    /\ completed = <<>>
    /\ requests = [s \in Slots |-> Idle]
    /\ health = NoHealth
    /\ formatting = NotFormatting
    /\ serving = NotServing
    /\ tester = NoTester
    /\ \/ \E p \in Endpoints : provider = [pc |-> "call", op |-> "discover", p |-> p]
       \/ \E p \in Endpoints, body \in ProviderBodies, reply \in ProviderReplies :
             provider = [pc |-> "call", op |-> "invoke", p |-> p,
                         body |-> body, reply |-> reply]

\* GET /.well-known/mcp.json is answered
ProviderDiscover ==
    /\ provider.pc = "call"
    /\ provider.op = "discover"
    /\ provider' = [pc |-> "return", op |-> "discover", p |-> provider.p,
                    response |-> discover(provider.p)]
    /\ UNCHANGED <<tool_registry, pc_refresh, endpoint_idx, passes, discovery,
                   registered_by, completed, requests, health, formatting, serving, tester>>

\* POST /invoke is answered
ProviderInvoke ==
    /\ provider.pc = "call"
    /\ provider.op = "invoke"
    /\ provider' = [pc |-> "return", op |-> "invoke", p |-> provider.p,
                    body |-> provider.body, reply |-> provider.reply,
                    response |-> invoke_tool(provider.p, provider.body, provider.reply)]
    /\ UNCHANGED <<tool_registry, pc_refresh, endpoint_idx, passes, discovery,
                   registered_by, completed, requests, health, formatting, serving, tester>>

NextProvider ==
    \/ ProviderDiscover
    \/ ProviderInvoke

SpecProvider == InitProvider /\ [][NextProvider]_vars

----------------------------------------------------------------------------
(* MCPComplianceTester.run_all_tests *)

\* self.agents, in the order of the dict
AGENTS == <<"summarizer", "task_extractor">>

\* the local  invoke_result  before its first assignment
Unbound == [status |-> "unbound"]

\* what the three tests of one agent return: the status of the discovery
\* test, one status per tool of the discovery data for the invoke tests, the
\* status of the health test. Only a discovery test that passed has tools.
AgentOutcomes ==
    { [discovery |-> d, invoke |-> iv, health |-> h] :
         d \in {"PASS", "FAIL", "ERROR"},
         iv \in SeqsUpTo({"PASS", "FAIL", "ERROR"}, MaxTools),
         h \in {"PASS", "ERROR"} }

\* the value of  invoke_result  after the  for tool in tools  loop
invoke_result_after(before, agent, outcome) ==
    IF outcome.discovery = "PASS" /\ outcome.invoke # <<>>
    THEN [status |-> outcome.invoke[Len(outcome.invoke)], agent |-> agent]
    ELSE before

\* the tests run for one agent, in their order
tests_of(agent, outcome) ==
    <<[test |-> "discovery", agent |-> agent, status |-> outcome.discovery]>>
    \o (IF outcome.discovery = "PASS"
        THEN [i \in 1..Len(outcome.invoke) |->
                 [test |-> "invoke", agent |-> agent, status |-> outcome.invoke[i]]]
        ELSE <<>>)
    \o <<[test |-> "health", agent |-> agent, status |-> outcome.health]>>

\* the summary loop: False as soon as a stored result has another status than
\* PASS; a stored None is skipped
all_passed(results) ==
    \A i \in 1..Len(results) :
        /\ results[i].discovery.status = "PASS"
        /\ results[i].invoke # Unbound => results[i].invoke.status = "PASS"
        /\ results[i].health.status = "PASS"

InitTester ==
    /\ tool_registry = <<>>
    /\ pc_refresh = "idle"
    /\ endpoint_idx = 0
    /\ passes = 0
    /\ discovery = [p \in Endpoints |-> NotFetched]
    /\ registered_by = <<>>
    /\ completed = <<>>
    /\ requests = [s \in Slots |-> Idle]
    /\ health = NoHealth
    /\ formatting = NotFormatting
    /\ serving = NotServing
    /\ provider = NoProvider
    /\ tester = [pc |-> "agents", agent_idx |-> 1, invoke_result |-> Unbound,
                 results |-> <<>>, ran |-> <<>>]

\* one pass of the  for agent_name, base_url  loop: the discovery test, the
\* invoke test of every tool when the discovery test passed, the health
\* test, and the entry of self.results
TestAgent(outcome) ==
    /\ tester.pc = "agents"
    /\ outcome.discovery # "PASS" => outcome.invoke = <<>>
    /\ LET agent         == AGENTS[tester.agent_idx]
           invoke_result == invoke_result_after(tester.invoke_result, agent, outcome)
       IN  tester' =
              [pc |-> IF tester.agent_idx < Len(AGENTS) THEN "agents" ELSE "summary",
               agent_idx |-> tester.agent_idx + 1,
               invoke_result |-> invoke_result,
               results |-> Append(tester.results,
                                  [agent |-> agent,
                                   discovery |-> [status |-> outcome.discovery],
                                   invoke |-> invoke_result,
                                   health |-> [status |-> outcome.health]]),
               ran |-> tester.ran \o tests_of(agent, outcome)]
    /\ UNCHANGED <<tool_registry, pc_refresh, endpoint_idx, passes, discovery,
                   registered_by, completed, requests, health, formatting, serving,
                   provider>>

\* the summary, and the value run_all_tests returns
TestSummary ==
    /\ tester.pc = "summary"
    /\ tester' = [pc |-> "done", results |-> tester.results, ran |-> tester.ran,
                  returned |-> all_passed(tester.results)]
    /\ UNCHANGED <<tool_registry, pc_refresh, endpoint_idx, passes, discovery,
                   registered_by, completed, requests, health, formatting, serving,
                   provider>>

NextTester ==
    \/ \E outcome \in AgentOutcomes : TestAgent(outcome)
    \/ TestSummary

SpecTester == InitTester /\ [][NextTester]_vars

----------------------------------------------------------------------------
(* format_response alone, over tool names, results and transcripts *)

FormatToolNames == {SUMMARIZE_TRANSCRIPT, HIGHLIGHT_KEY_POINTS, EXTRACT_TASKS, FOO}

FormatResults ==
    << PyDict([output |-> <<>>]),
       PyDict([output |-> T_PLAIN]),
       PyDict([output |-> T_TASKS]),
       PyDict([output |-> T_NOTASKS]),
       PyDict([output |-> T_OBJ]),
       PyDict([output |-> T_ARRAY]),
       PyDict([output |-> T_TRUNC]),
       PyDict([output |-> T_POINTS]),
       PyDict([content |-> <<>>]),
       PyList(<<>>),
       PyDict([output |-> T_NULL]),
       PyDict([output |-> T_NUMTASKS]),
       PyDict([output |-> T_MULTILINE]) >>

FormatTranscripts == {Text(10, 0, 0), Text(0, 10, 0), Text(0, 10000, 0)}

InitFormat ==
    /\ tool_registry = <<>>
    /\ pc_refresh = "idle"
    /\ endpoint_idx = 0
    /\ passes = 0
    /\ discovery = [p \in Endpoints |-> NotFetched]
    /\ registered_by = <<>>
    /\ completed = <<>>
    /\ requests = [s \in Slots |-> Idle]
    /\ health = NoHealth
    /\ serving = NotServing
    /\ provider = NoProvider
    /\ tester = NoTester
    /\ \E tool_name \in FormatToolNames, i \in 1..Len(FormatResults),
          transcript \in FormatTranscripts :
          formatting = [pc |-> "call", tool_name |-> tool_name,
                        result |-> FormatResults[i], transcript |-> transcript]

Format ==
    /\ formatting.pc = "call"
    /\ formatting' =
          [pc |-> "return", tool_name |-> formatting.tool_name,
           result |-> formatting.result, transcript |-> formatting.transcript,
           envelope |-> format_response(formatting.tool_name, formatting.result,
                                        formatting.transcript)]
    /\ UNCHANGED <<tool_registry, pc_refresh, endpoint_idx, passes, discovery,
                   registered_by, completed, requests, health, serving, provider, tester>>

NextFormat == Format

SpecFormat == InitFormat /\ [][NextFormat]_vars

----------------------------------------------------------------------------
(* Vocabulary of the properties *)

Fetched(p) == discovery[p] # NotFetched

RefreshDone == pc_refresh = "idle" /\ passes > 0

DiscoveryFailed(p) == Fetched(p) /\ discovery[p].response \in DiscoveryFailures

\* the "tools" list endpoint p sent in this pass
Advertised(p) ==
    IF Fetched(p) /\ discovery[p].response.kind = "ok"
                  /\ "tools" \in DOMAIN discovery[p].response.data
    THEN discovery[p].response.data.tools
    ELSE <<>>

\* endpoint p answered with a "tools" list whose entries all have a name
WellFormed(p) ==
    /\ Fetched(p)
    /\ discovery[p].response.kind = "ok"
    /\ "tools" \in DOMAIN discovery[p].response.data
    /\ \A i \in 1..Len(Advertised(p)) : "name" \in DOMAIN Advertised(p)[i]

AdvertisedNames(p) ==
    {Advertised(p)[i].name :
        i \in {j \in 1..Len(Advertised(p)) : "name" \in DOMAIN Advertised(p)[j]}}

Largest(S) == CHOOSE x \in S : \A y \in S : y <= x

\* the last definition of name n that endpoint p sent
LastEntry(p, n) ==
    Advertised(p)[Largest({i \in 1..Len(Advertised(p)) :
                              /\ "name" \in DOMAIN Advertised(p)[i]
                              /\ Advertised(p)[i].name = n})]

----------------------------------------------------------------------------
(* Properties of populate_tool_registry, checked under SpecRegistry *)

\* C1: when every endpoint answered with a well-formed tools list, the keys of
\* the registry after populate_tool_registry are exactly the advertised names,
\* and each key holds the definition sent by the last endpoint, in
\* configuration order, that advertises it.
C1_UnionLastWins ==
    (RefreshDone /\ \A p \in Endpoints : WellFormed(p)) =>
        /\ DictKeySet(tool_registry) = UNION {AdvertisedNames(p) : p \in Endpoints}
        /\ \A n \in DictKeySet(tool_registry) :
              LET last == Largest({p \in Endpoints : n \in AdvertisedNames(p)})
              IN  /\ DictGet(tool_registry, n) = LastEntry(last, n)
                  /\ DictGet(registered_by, n) = last

\* a pass in which both endpoints advertised the same name with different
\* definitions, and one of them a second name
C1_Witness ==
    /\ RefreshDone
    /\ \A p \in Endpoints : WellFormed(p)
    /\ \E n \in AdvertisedNames(1) \cap AdvertisedNames(2) :
          /\ LastEntry(1, n) # LastEntry(2, n)
          /\ DictGet(tool_registry, n) = LastEntry(2, n)
    /\ Len(tool_registry) >= 2

\* C4: when an endpoint fails during discovery (unreachable, timeout, error
\* status), populate_tool_registry still asks every endpoint and ends with
\* every name of every well-formed response among the keys, wherever the
\* failing endpoint stands in the configuration.
C4_FailureIsolated ==
    (RefreshDone /\ \E q \in Endpoints : DiscoveryFailed(q)) =>
        /\ \A p \in Endpoints : Fetched(p)
        /\ \A p \in Endpoints :
              WellFormed(p) => AdvertisedNames(p) \subseteq DictKeySet(tool_registry)

\* the first endpoint failed, the second one advertised tools that are stored
C4_Witness ==
    /\ RefreshDone
    /\ DiscoveryFailed(1)
    /\ WellFormed(2)
    /\ AdvertisedNames(2) # {}
    /\ AdvertisedNames(2) = DictKeySet(tool_registry)

\* endpoint p sent a tools list with an entry that has no name
Malformed(p) ==
    \E i \in 1..Len(Advertised(p)) : "name" \notin DOMAIN Advertised(p)[i]

\* C25: an endpoint whose tools list has an entry without a name contributes
\* nothing to the registry of that pass: no key of the registry was stored
\* from its list, the entries before the nameless one included.
C25_MalformedExcludedWhole ==
    RefreshDone =>
        \A p \in Endpoints :
            Malformed(p) =>
                \A n \in DictKeySet(registered_by) : DictGet(registered_by, n) # p

C9_NeverRaises ==
    \A p \in Endpoints :
        Fetched(p) =>
            /\ ~discovery[p].outcome.raised
            /\ DiscoveryFailed(p) => discovery[p].outcome.tools = <<>>

\* C9 amended: on a network failure, a timeout, an error status or a body
\* that is not a JSON object, fetch_tools_from_plugin raises an HTTPException
\* with status 500 and returns no list; otherwise it returns the "tools" list
\* of the body, or the empty list when the body has none.
C9_RaisesOnFailure ==
    \A p \in Endpoints :
        Fetched(p) =>
            IF DiscoveryFailed(p)
            THEN /\ discovery[p].outcome.raised
                 /\ discovery[p].outcome.status_code = 500
                 /\ "tools" \notin DOMAIN discovery[p].outcome
            ELSE /\ ~discovery[p].outcome.raised
                 /\ discovery[p].outcome.tools = Advertised(p)

\* a pass in which one endpoint timed out and another sent an error status
C9_Witness ==
    /\ \E p \in Endpoints :
          /\ Fetched(p)
          /\ discovery[p].response.kind = "timeout"
          /\ discovery[p].outcome.raised
    /\ \E p \in Endpoints :
          /\ Fetched(p)
          /\ discovery[p].response.kind = "http_error"
          /\ discovery[p].outcome.raised

----------------------------------------------------------------------------
(* Property of populate_tool_registry, checked under SpecIdempotent *)

\* C19: while every endpoint answers discovery in the same way, each pass of
\* populate_tool_registry ends with the registry the first pass ended with:
\* the same keys in the same order with the same definitions.
C19_RefreshIdempotent ==
    \A g \in 1..Len(completed) :
        /\ completed[g] = completed[1]
        /\ DictKeys(completed[g]) = DictKeys(completed[1])

\* two passes are over; both endpoints advertise a common name with different
\* definitions and the registry holds two tools
C19_Witness ==
    /\ Len(completed) = 2
    /\ RefreshDone
    /\ \E n \in AdvertisedNames(1) \cap AdvertisedNames(2) :
          LastEntry(1, n) # LastEntry(2, n)
    /\ Len(completed[2]) = 2
    /\ completed[2] = tool_registry

----------------------------------------------------------------------------
(* Vocabulary of the properties of a request *)

Active(s) == requests[s].pc # "idle"

\* the handler ran: the request passed AskInput and read the registry
Handled(s) == Active(s) /\ requests[s].llm_calls = 1

\* the classifier answered with text
Classified(s) == Handled(s) /\ requests[s].reply.kind = "ok"

\* the request got past the check of the selected name against the registry
Selected(s) == Active(s) /\ Len(requests[s].phases) >= 4
                         /\ requests[s].phases[4] = "ProviderInvoked"

\* tok is the first whitespace-delimited token of out
IsFirstToken(tok, out) ==
    /\ tok # <<>>
    /\ \A i \in 1..Len(tok) : tok[i] \notin Whitespace
    /\ \E n \in 0..Len(out) :
          /\ \A i \in 1..n : out[i] \in Whitespace
          /\ n + Len(tok) <= Len(out)
          /\ SubSeq(out, n + 1, n + Len(tok)) = tok
          /\ n + Len(tok) = Len(out) \/ out[n + Len(tok) + 1] \in Whitespace

\* the body of the response is the dict {"error": ...}
ErrorBody(s) ==
    /\ requests[s].response.status_code = 200
    /\ "error" \in DOMAIN requests[s].response.body

\* the body of the response is an envelope of format_response
EnvelopeBody(s) ==
    /\ requests[s].response.status_code = 200
    /\ "type" \in DOMAIN requests[s].response.body

\* the registry as it was when pass g began
Before(g) == IF g = 1 THEN <<>> ELSE completed[g - 1]

PHASES == <<"Start", "ClassifierPending", "ToolResolved", "ProviderInvoked",
            "Normalized", "Done">>

----------------------------------------------------------------------------
(* Properties of ask(), checked under Spec *)

\* C2: a request whose selected name is a key of the registry is sent to the
\* endpoint whose discovery response registered that key, whatever the name
\* is; resolving the owner fails only for names that are not keys.
C2_RoutedToRegistrant ==
    \A s \in Slots :
        (Classified(s) /\ DictHas(requests[s].seen, requests[s].tool_name)) =>
            /\ requests[s].invokes = 1
            /\ requests[s].call.url =
                  PLUGIN_ENDPOINTS[DictGet(requests[s].owners, requests[s].tool_name)]

C5_SelectToolExact ==
    \A s \in Slots :
        Classified(s) =>
            IF \E key \in DictKeySet(requests[s].seen) :
                   IsFirstToken(key, requests[s].reply.content)
            THEN /\ Selected(s)
                 /\ IsFirstToken(requests[s].tool_name, requests[s].reply.content)
                 /\ DictHas(requests[s].seen, requests[s].tool_name)
            ELSE /\ ~Selected(s)
                 /\ requests[s].invokes = 0
                 /\ ErrorBody(s)

\* the output "\n summarize_transcript  please" selects summarize_transcript
C5_Witness ==
    \E s \in Slots :
        /\ Classified(s)
        /\ requests[s].reply.content = OUT_PLEASE
        /\ Selected(s)
        /\ requests[s].tool_name = SUMMARIZE_TRANSCRIPT

\* C6: when the selected token is not a key of the registry, the request ends
\* with the dict {"error": ...} that names the token and lists every key of
\* the registry, and nothing is sent to a sub-agent.
C6_UnknownToolError ==
    \A s \in Slots :
        (Classified(s) /\ ~DictHas(requests[s].seen, requests[s].tool_name)) =>
            /\ requests[s].pc = "done"
            /\ ErrorBody(s)
            /\ requests[s].response.body.error.name = requests[s].tool_name
            /\ requests[s].response.body.error.keys = DictKeys(requests[s].seen)
            /\ requests[s].invokes = 0
            /\ requests[s].call = NoCall

\* "nonexistent_tool" is answered with the two names that are registered
C6_Witness ==
    \E s \in Slots :
        /\ Classified(s)
        /\ requests[s].tool_name = OUT_NONEXISTENT
        /\ Len(requests[s].seen) = 2
        /\ ErrorBody(s)
        /\ Len(requests[s].response.body.error.keys) = 2

\* the state part of C7
C7_Order(s) ==
    LET r  == requests[s]
        ph == r.phases
    IN  /\ \/ \E k \in 1..Len(PHASES) : ph = SubSeq(PHASES, 1, k)
           \/ \E k \in 1..(Len(PHASES) - 2) : ph = Append(SubSeq(PHASES, 1, k), "Failed")
        /\ r.pc = "done" <=> ph[Len(ph)] \in {"Done", "Failed"}
        /\ r.invokes = 1 =>
              /\ r.llm_calls = 1
              /\ r.reply.kind = "ok"
              /\ DictHas(r.seen, r.tool_name)
              /\ r.call.name = r.tool_name
        /\ r.invokes = 1 <=> (Len(ph) >= 4 /\ r.call # NoCall)
        /\ EnvelopeBody(s) <=> ph = PHASES
        /\ ph = PHASES => r.invokes = 1 /\ r.result.kind = "json"

\* C7: the phases of a request are a prefix of Start, ClassifierPending,
\* ToolResolved, ProviderInvoked, Normalized, Done, possibly ended by Failed
\* after any phase before Normalized; the sub-agent is called only for a name
\* that was checked against the registry, an envelope is produced only from
\* an answer that was received, and a request that is Done or Failed does
\* not change any more.
C7_PhaseOrder ==
    /\ [](\A s \in Slots : Active(s) => C7_Order(s))
    /\ [][\A s \in Slots :
             (Active(s) /\ requests[s].pc = "done") =>
                 (requests'[s] = requests[s] \/ requests'[s] = Idle)]_vars

\* a request that went through all the phases
C7_Witness ==
    \E s \in Slots :
        /\ Active(s)
        /\ requests[s].phases = PHASES
        /\ requests[s].result.kind = "json"
        /\ EnvelopeBody(s)

\* C8: a request whose transcript is empty, blank, shorter than 10 or longer
\* than 10000 characters, or whose prompt is shorter than 1 or longer than
\* 500 characters, is rejected before the classifier or a sub-agent is called.
C8_InvalidInputRejected ==
    \A s \in Slots :
        (/\ Active(s)
         /\ \/ TextLen(requests[s].transcript) = 0
            \/ requests[s].transcript.body = 0
            \/ TextLen(requests[s].transcript) < 10
            \/ TextLen(requests[s].transcript) > 10000
            \/ requests[s].prompt < 1
            \/ requests[s].prompt > 500) =>
            /\ requests[s].response.status_code = 422
            /\ requests[s].llm_calls = 0
            /\ requests[s].invokes = 0

\* the category of each known tool and the text that stands for no result
Category(tool_name) ==
    IF tool_name = SUMMARIZE_TRANSCRIPT THEN "summary"
    ELSE IF tool_name = HIGHLIGHT_KEY_POINTS THEN "key_points"
    ELSE "tasks"

Placeholder(tool_name) ==
    IF tool_name = SUMMARIZE_TRANSCRIPT THEN "No summary generated"
    ELSE IF tool_name = HIGHLIGHT_KEY_POINTS THEN "No key points identified"
    ELSE "No tasks identified"

KnownTools == {SUMMARIZE_TRANSCRIPT, HIGHLIGHT_KEY_POINTS, EXTRACT_TASKS}

\* the answer of the sub-agent is a JSON object whose "content" list is not
\* empty and begins with an item of type "text" that has a "text" field
IsTextResponse(resp) ==
    /\ "body" \in DOMAIN resp
    /\ resp.kind = "json"
    /\ resp.body.py = "dict"
    /\ "content" \in DOMAIN resp.body.v
    /\ resp.body.v.content # <<>>
    /\ "type" \in DOMAIN resp.body.v.content[1]
    /\ resp.body.v.content[1].type = "text"
    /\ "text" \in DOMAIN resp.body.v.content[1]

\* the sub-agent was called and the call is over
Answered(s) == Active(s) /\ requests[s].pc = "done" /\ requests[s].result # NoResult

\* the POST got no answer or an error status
InvokeFailed(s) ==
    Answered(s) /\ requests[s].result.kind \in {"unreachable", "timeout", "http_error"}

\* the request ended with an HTTPException: a status and a detail, no body
HttpError(s) ==
    /\ requests[s].response.status_code \in {401, 422, 429, 500}
    /\ "detail" \in DOMAIN requests[s].response
    /\ "body" \notin DOMAIN requests[s].response

\* C11: an answer of the sub-agent is formatted only when it is a JSON object
\* whose content list is not empty and begins with a text item, and then the
\* raw result is that text; an answer without content, with an empty content
\* list, with a first item that is not text, or that is not JSON, ends the
\* request without an envelope of format_response.
C11_OnlyTextAccepted ==
    \A s \in Slots :
        (Answered(s) /\ ~InvokeFailed(s)) =>
            IF IsTextResponse(requests[s].result)
            THEN /\ EnvelopeBody(s)
                 /\ requests[s].response.body =
                       format_response(
                           requests[s].tool_name,
                           PyDict([output |-> requests[s].result.body.v.content[1].text]),
                           requests[s].transcript)
            ELSE ~EnvelopeBody(s)

\* the state part of C12
C12_Once(s) ==
    LET r == requests[s]
    IN  /\ r.llm_calls <= 1
        /\ r.invokes <= 1
        /\ (r.llm_calls = 1 /\ r.reply.kind # "ok") =>
              /\ r.pc = "done"
              /\ r.phases[Len(r.phases)] = "Failed"
              /\ HttpError(s)
              /\ r.invokes = 0
              /\ r.call = NoCall
        /\ r.result # NoResult =>
              /\ r.pc = "done"
              /\ r.invokes = 1
        /\ InvokeFailed(s) =>
              /\ r.phases[Len(r.phases)] = "Failed"
              /\ HttpError(s)

\* C12: in one request call_llm is called at most once and the POST to the
\* sub-agent is sent at most once; a failed classifier call ends the
\* request as failed with no POST, and a POST that fails ends it as failed
\* with no second POST: within a request the two counts change by one step
\* from 0 to 1 only.
C12_NoRetry ==
    /\ [](\A s \in Slots : Active(s) => C12_Once(s))
    /\ [][\A s \in Slots :
             (Active(s) /\ requests'[s] # Idle) =>
                 /\ requests'[s].llm_calls = requests[s].llm_calls
                 /\ requests'[s].invokes = requests[s].invokes]_vars

\* a POST that timed out ended the request after one classifier call and one POST
C12_Witness ==
    \E s \in Slots :
        /\ InvokeFailed(s)
        /\ requests[s].result.kind = "timeout"
        /\ requests[s].llm_calls = 1
        /\ requests[s].invokes = 1
        /\ requests[s].phases[Len(requests[s].phases)] = "Failed"

\* C13 as stated: a POST that fails ends the request without an envelope, and
\* every response of /ask is an envelope or the dict {"error": ...}.
C13_EnvelopeOrErrorObject ==
    \A s \in Slots :
        (Active(s) /\ requests[s].pc = "done") =>
            /\ InvokeFailed(s) => ~EnvelopeBody(s)
            /\ EnvelopeBody(s) \/ ErrorBody(s)

\* C13 amended: a POST that fails (no connection, timeout, error status) ends
\* the request with an HTTPException of status 500 and a detail string, and
\* no envelope; every response of /ask is an envelope, a dict with the key
\* "error", or an HTTPException with status 401, 422, 429 or 500 and a detail.
C13_EnvelopeErrorOrHttpError ==
    \A s \in Slots :
        (Active(s) /\ requests[s].pc = "done") =>
            /\ InvokeFailed(s) =>
                  /\ requests[s].response.status_code = 500
                  /\ HttpError(s)
                  /\ requests[s].phases[Len(requests[s].phases)] = "Failed"
            /\ \/ EnvelopeBody(s) /\ requests[s].phases = PHASES
               \/ ErrorBody(s) /\ ~EnvelopeBody(s)
               \/ HttpError(s)

\* the sub-agent answered with an error status and the request ended with 500
C13_Witness ==
    \E s \in Slots :
        /\ InvokeFailed(s)
        /\ requests[s].result.kind = "http_error"
        /\ requests[s].response.status_code = 500
        /\ HttpError(s)

\* a is a prefix of b
IsPrefix(a, b) == Len(a) <= Len(b) /\ SubSeq(b, 1, Len(a)) = a

\* C14: in one request the candidates of the classifier prompt, the keys the
\* answer is checked against, the entry the payload is built from and the
\* keys listed in an unknown-tool error are those of one state of the
\* registry, and that state holds tools of one pass of
\* populate_tool_registry only: the result of the last finished pass, or,
\* when a pass is in progress, keys that this pass stores.
C14_OneGeneration ==
    \A s \in Slots :
        Handled(s) =>
            LET r == requests[s]
            IN  /\ r.candidates = tool_list(r.seen)
                /\ Classified(s) =>
                      /\ Selected(s) <=> DictHas(r.seen, r.tool_name)
                      /\ r.invokes = 1 =>
                            r.call.arguments =
                               build_payload(DictGet(r.seen, r.tool_name), r.transcript)
                      /\ ~DictHas(r.seen, r.tool_name) =>
                            /\ ErrorBody(s)
                            /\ r.response.body.error.keys = DictKeys(r.seen)
                /\ r.refreshing = 0 =>
                      \/ r.seen = <<>>
                      \/ \E g \in 1..Len(completed) : r.seen = completed[g]
                /\ (r.refreshing > 0 /\ Len(completed) >= r.refreshing) =>
                      IsPrefix(DictKeys(r.seen), DictKeys(completed[r.refreshing]))

\* a request that arrived during the second pass, when one tool was stored,
\* was answered with an unknown-tool error that lists that one tool
C14_Witness ==
    \E s \in Slots :
        /\ Classified(s)
        /\ requests[s].refreshing = 2
        /\ Len(requests[s].seen) = 1
        /\ Len(requests[s].candidates) = 1
        /\ ErrorBody(s)
        /\ requests[s].response.body.error.keys = DictKeys(requests[s].seen)
        /\ Len(completed[1]) = 3

\* C15: no step of a request to /ask or to /health changes the registry;
\* the registry changes only in a step of populate_tool_registry.
C15_RequestsLeaveRegistry ==
    [][/\ (requests' # requests \/ health' # health) =>
             tool_registry' = tool_registry
       /\ tool_registry' # tool_registry =>
             /\ pc_refresh' = "fetching" \/ pc_refresh = "fetching"
             /\ requests' = requests
             /\ health' = health]_vars

\* a request whose POST failed has ended, and the registry still holds the
\* three tools it held when the request read it
C15_Witness ==
    \E s \in Slots :
        /\ InvokeFailed(s)
        /\ Len(requests[s].seen) = 3
        /\ requests[s].seen = tool_registry
        /\ pc_refresh = "idle"

\* C17: a registered tool that is none of the three known ones is called
\* like any other, and a text answer of its sub-agent is formatted as an
\* envelope of type unknown whose content is str() of the result; the
\* request does not fail because of the tool's category.
C17_UnknownCategoryNormalized ==
    \A s \in Slots :
        (/\ Classified(s)
         /\ requests[s].pc = "done"
         /\ DictHas(requests[s].seen, requests[s].tool_name)
         /\ requests[s].tool_name \notin KnownTools) =>
            /\ requests[s].invokes = 1
            /\ IsTextResponse(requests[s].result) =>
                  /\ EnvelopeBody(s)
                  /\ requests[s].response.body.type = "unknown"
                  /\ requests[s].response.body.content =
                        FStr("{!s}",
                             <<PyDict([output |->
                                  requests[s].result.body.v.content[1].text])>>)

\* C18: when summarize_transcript is registered, the classifier output
\* selects it and the sub-agent that is called answers with a text item whose
\* text T is not empty, the response of /ask is the envelope of type summary
\* whose content is T, unchanged.
C18_SummaryEndToEnd ==
    \A s \in Slots :
        (/\ Classified(s)
         /\ requests[s].tool_name = SUMMARIZE_TRANSCRIPT
         /\ DictHas(requests[s].seen, SUMMARIZE_TRANSCRIPT)
         /\ Answered(s)
         /\ IsTextResponse(requests[s].result)
         /\ requests[s].result.body.v.content[1].text # <<>>) =>
            /\ requests[s].call.url = SUMMARIZER_URL
            /\ requests[s].call.name = SUMMARIZE_TRANSCRIPT
            /\ requests[s].response.status_code = 200
            /\ requests[s].response.body.type = "summary"
            /\ requests[s].response.body.content =
                  Plain(requests[s].result.body.v.content[1].text)
            /\ requests[s].response.body.metadata.tool_used = SUMMARIZE_TRANSCRIPT

\* the registry holds summarize_transcript as registered by the summarizer,
\* the classifier said "summarize_transcript" and the summarizer answered
\* "Meeting covered X, Y, Z."
C18_Witness ==
    \E s \in Slots :
        /\ Classified(s)
        /\ requests[s].reply.content = SUMMARIZE_TRANSCRIPT
        /\ DictHas(requests[s].owners, SUMMARIZE_TRANSCRIPT)
        /\ DictGet(requests[s].owners, SUMMARIZE_TRANSCRIPT) = 1
        /\ requests[s].call.url = PLUGIN_ENDPOINTS[1]
        /\ Answered(s)
        /\ IsTextResponse(requests[s].result)
        /\ requests[s].result.body.v.content[1].text = T_PLAIN
        /\ requests[s].response.body.content = Plain(T_PLAIN)

\* C21: the completion that ask() requests for the classification is
\* requested with max_tokens 32 and temperature 0, the values ask() passes,
\* and not with the defaults of LLMConfig.
C21_ClassifierParameters ==
    \A s \in Slots :
        Handled(s) =>
            /\ requests[s].llm_request.sent
            /\ requests[s].llm_request.max_tokens = 32
            /\ requests[s].llm_request.temperature = 0

----------------------------------------------------------------------------
(* Property of two requests at a time, checked under SpecPair *)

\* what a request with the inputs and replies of r comes to when it is the
\* only one: ask() applied to the registry, the transcript, the prompt and
\* the classifier reply of r, and then to the answer of the sub-agent if one
\* has come
Alone(r) ==
    LET sync == AskSync(tool_registry, registered_by, 0,
                        r.transcript, r.prompt, r.reply)
    IN  IF r.result = NoResult THEN sync ELSE AskResume(sync, r.result)

\* the classifier reply that a request was given, also when validation
\* ended the request before the classifier was called
GivenReply(r) == r.llm_calls = 1 \/ r.response.status_code = 422

\* C22: over an unchanged registry, whatever the interleaving, each of two
\* requests is at every moment where it would be if it ran alone with the
\* same classifier reply and the same answer of the sub-agent; in
\* particular a request that fails leaves the other one as it would be alone.
C22_RequestsIndependent ==
    /\ [](\A s \in PairSlots :
            (requests[s] # Idle /\ GivenReply(requests[s])) =>
                requests[s] = Alone(requests[s]))
    /\ [][\A s \in PairSlots :
             requests'[s] # requests[s] =>
                 \A o \in PairSlots \ {s} : requests'[o] = requests[o]]_vars

\* one request has failed with status 500 while the other one, which waits
\* for its sub-agent, is untouched; and one has failed while the other is done
C22_Witness ==
    \E s \in PairSlots, o \in PairSlots :
        /\ s # o
        /\ requests[s] # Idle
        /\ requests[o] # Idle
        /\ requests[s].pc = "done"
        /\ requests[s].response.status_code = 500
        /\ requests[s].result = [kind |-> "timeout"]
        /\ requests[o].pc = "done"
        /\ requests[o].phases = PHASES

----------------------------------------------------------------------------
(* Properties of format_response, checked under SpecFormat *)

Formatted == formatting.pc = "return"

\* C10: for extract_tasks and a raw output that is not empty and is not JSON,
\* the envelope has type error and its content carries the message of the
\* parse failure and the raw output as it was.
C10_MalformedJsonIsError ==
    (/\ Formatted
     /\ formatting.tool_name = EXTRACT_TASKS
     /\ formatting.result.py = "dict"
     /\ GetOutput(formatting.result) # <<>>
     /\ ~json_loads(GetOutput(formatting.result)).ok) =>
        /\ formatting.envelope.type = "error"
        /\ Len(formatting.envelope.content.parts) = 2
        /\ formatting.envelope.content.parts[1] =
              json_loads(GetOutput(formatting.result)).msg
        /\ formatting.envelope.content.parts[2] = GetOutput(formatting.result)

\* C16: for each of the three known tools, a result whose output is empty or
\* absent is formatted as an envelope of the tool's own category whose
\* content is the category's text for no result; the envelope is not of type
\* error and format_response returns.
C16_EmptyIsPlaceholder ==
    (/\ Formatted
     /\ formatting.tool_name \in KnownTools
     /\ formatting.result.py = "dict"
     /\ GetOutput(formatting.result) = <<>>) =>
        /\ formatting.envelope.type = Category(formatting.tool_name)
        /\ formatting.envelope.type # "error"
        /\ formatting.envelope.content =
              FStr(Placeholder(formatting.tool_name), <<>>)
        /\ formatting.envelope.metadata.tool_used = formatting.tool_name

\* highlight_key_points with the output "" gave the key_points placeholder
C16_Witness ==
    /\ Formatted
    /\ formatting.tool_name = HIGHLIGHT_KEY_POINTS
    /\ formatting.result = PyDict([output |-> <<>>])
    /\ formatting.envelope.type = "key_points"
    /\ formatting.envelope.metadata.points_count = 0

CATEGORIES == {"summary", "key_points", "tasks", "unknown", "error"}

\* C27: format_response returns for every tool name and every result, a
\* result that is no dict and an output whose JSON is no object included; the
\* type of the envelope is one of summary, key_points, tasks, unknown and
\* error, and metadata.tool_used is the tool name it was given.
C27_TotalAndClosed ==
    Formatted =>
        /\ formatting.envelope.type \in CATEGORIES
        /\ formatting.envelope.metadata.tool_used = formatting.tool_name

\* extract_tasks with an output that is the JSON null ended as an error
\* envelope that names the tool
C27_Witness ==
    /\ Formatted
    /\ formatting.tool_name = EXTRACT_TASKS
    /\ formatting.result = PyDict([output |-> T_NULL])
    /\ formatting.envelope.type = "error"
    /\ formatting.envelope.metadata.tool_used = EXTRACT_TASKS

\* the lines of a text: str.split("\n")
RECURSIVE Lines(_)
Lines(s) ==
    IF \A i \in 1..Len(s) : s[i] # "\n" THEN <<s>>
    ELSE LET cut == CHOOSE i \in 1..Len(s) :
                       /\ s[i] = "\n"
                       /\ \A j \in 1..(i - 1) : s[j] # "\n"
         IN  <<SubSeq(s, 1, cut - 1)>> \o Lines(SubSeq(s, cut + 1, Len(s)))

\* extract_tasks was given an output that is a JSON object whose
\* actionable_tasks is a list, or that has no such field
TasksFormatted ==
    /\ Formatted
    /\ formatting.tool_name = EXTRACT_TASKS
    /\ formatting.result.py = "dict"
    /\ GetOutput(formatting.result) # <<>>
    /\ json_loads(GetOutput(formatting.result)).ok
    /\ json_loads(GetOutput(formatting.result)).value.py = "dict"
    /\ "actionable_tasks" \in DOMAIN json_loads(GetOutput(formatting.result)).value.v =>
          json_loads(GetOutput(formatting.result)).value.v.actionable_tasks.py = "list"

\* the tasks of that output, none when the field is missing
TasksGiven ==
    LET object == json_loads(GetOutput(formatting.result)).value.v
    IN  IF "actionable_tasks" \in DOMAIN object THEN object.actionable_tasks.v ELSE <<>>

NoTasks ==
    /\ formatting.envelope.content = FStr("No tasks identified", <<>>)
    /\ formatting.envelope.metadata.tasks_count = 0

\* C29 as stated: k >= 1 tasks give a content of exactly k lines, line i
\* being "i. " and the i-th task, and tasks_count k; no task or no
\* actionable_tasks field gives "No tasks identified" and tasks_count 0.
C29_ExactlyKLines ==
    TasksFormatted =>
        /\ formatting.envelope.type = "tasks"
        /\ IF TasksGiven = <<>> THEN NoTasks
           ELSE /\ formatting.envelope.metadata.tasks_count = Len(TasksGiven)
                /\ formatting.envelope.content.fmt = "{}"
                /\ LET lines == Lines(formatting.envelope.content.parts[1])
                   IN  /\ Len(lines) = Len(TasksGiven)
                       /\ \A i \in 1..Len(TasksGiven) :
                             lines[i] = IntToStr(i) \o <<".", " ">> \o TasksGiven[i]

\* C29 amended: k >= 1 tasks give as content the k items "i. " and the i-th
\* task, in the order of the list, joined by line breaks, and tasks_count k;
\* these are exactly k lines when no task has a line break in it. No task or
\* no actionable_tasks field gives "No tasks identified" and tasks_count 0.
C29_KItemsJoined ==
    TasksFormatted =>
        /\ formatting.envelope.type = "tasks"
        /\ IF TasksGiven = <<>> THEN NoTasks
           ELSE /\ formatting.envelope.metadata.tasks_count = Len(TasksGiven)
                /\ formatting.envelope.content =
                      Plain(Join([i \in 1..Len(TasksGiven) |->
                                     IntToStr(i) \o <<".", " ">> \o TasksGiven[i]],
                                 <<"\n">>))
                /\ (\A i \in 1..Len(TasksGiven) : Lines(TasksGiven[i]) = <<TasksGiven[i]>>) =>
                      LET lines == Lines(formatting.envelope.content.parts[1])
                      IN  /\ Len(lines) = Len(TasksGiven)
                          /\ \A i \in 1..Len(TasksGiven) :
                                lines[i] = IntToStr(i) \o <<".", " ">> \o TasksGiven[i]

\* two tasks gave two numbered lines
C29_Witness ==
    /\ TasksFormatted
    /\ formatting.result = PyDict([output |-> T_TASKS])
    /\ Lines(formatting.envelope.content.parts[1])
          = << <<"1", ".", " ", "a">>, <<"2", ".", " ", "b">> >>
    /\ formatting.envelope.metadata.tasks_count = 2

----------------------------------------------------------------------------
(* Property of the timeouts, checked under SpecLive *)

\* C20: every request that waits for a sub-agent ends, as done or failed, and
\* every pass of populate_tool_registry ends, also when an endpoint or the
\* classifier never answers: the call ends with its timeout (discovery 10 s,
\* invoke 30 s, classifier LLMConfig.TIMEOUT) and the failure path is taken.
C20_Terminates ==
    /\ \A s \in Slots :
          (requests[s].pc = "invoking") ~> (requests[s].pc = "done")
    /\ (pc_refresh = "fetching") ~> (pc_refresh = "idle")
    /\ [](\A s \in Slots :
            (Active(s) /\ serving.classifier = HUNG) =>
                /\ requests[s].pc = "done"
                /\ requests[s].response.status_code = 500)

\* the sub-agent never answers: the request that called it has ended with
\* status 500, after a pass in which the second endpoint never answered
C20_Witness ==
    \E s \in Slots :
        /\ serving.invoke = HUNG
        /\ serving.discovery[2] = HUNG
        /\ Active(s)
        /\ requests[s].pc = "done"
        /\ requests[s].result = [kind |-> "timeout"]
        /\ requests[s].response.status_code = 500
        /\ RefreshDone
        /\ DiscoveryFailed(2)

----------------------------------------------------------------------------
(* Properties of the sub-agents, checked under SpecProvider *)

Discovered == provider.pc = "return" /\ provider.op = "discover"

\* POST /invoke was answered, the body being a name with an arguments object
Invoked ==
    /\ provider.pc = "return"
    /\ provider.op = "invoke"
    /\ "name" \in DOMAIN provider.body
    /\ "arguments" \in DOMAIN provider.body

\* the names sub-agent p lists in its discovery response
ToolNames(p) == {discover(p).tools[i].name : i \in 1..Len(discover(p).tools)}

\* the transcript argument is there and is acceptable: not blank, at least 10
\* characters after trimming, at most 10000 characters
GoodTranscript(arguments) ==
    /\ "transcript" \in DOMAIN arguments
    /\ arguments.transcript.body >= 10
    /\ arguments.transcript.lead + arguments.transcript.body
          + arguments.transcript.trail <= 10000

\* the response is 200 with a content list that begins with a text item
TextContent(response) ==
    /\ response.status_code = 200
    /\ "body" \in DOMAIN response
    /\ response.body.py = "dict"
    /\ "content" \in DOMAIN response.body.v
    /\ response.body.v.content # <<>>
    /\ "type" \in DOMAIN response.body.v.content[1]
    /\ response.body.v.content[1].type = "text"
    /\ "text" \in DOMAIN response.body.v.content[1]

\* C23: a sub-agent accepts at /invoke every name of its own discovery
\* response and, given an acceptable transcript and an LLM call that succeeds,
\* answers 200 with a content list whose first item is {type: text, text};
\* a name it does not list is answered 400 Unknown tool without an LLM call.
C23_AdvertisedIsInvocable ==
    Invoked =>
        IF provider.body.name \in ToolNames(provider.p)
        THEN /\ provider.response.status_code # 400
             /\ (GoodTranscript(provider.body.arguments) /\ provider.reply.kind = "ok") =>
                   /\ TextContent(provider.response)
                   /\ provider.response.llm_request.sent
        ELSE /\ provider.response.status_code = 400
             /\ provider.response.detail = "Unknown tool"
             /\ ~provider.response.llm_request.sent

\* the summarizer answered highlight_key_points with a text item
C23_Witness ==
    /\ Invoked
    /\ provider.p = 1
    /\ provider.body.name = HIGHLIGHT_KEY_POINTS
    /\ provider.reply = [kind |-> "ok", content |-> T_PLAIN]
    /\ TextContent(provider.response)
    /\ provider.response.body.v.content[1].text = T_PLAIN

\* C24: the discovery response of each sub-agent has tools, resources and
\* capabilities; every tool has a name, a description and an inputSchema that
\* is an object; the names are not empty and no name occurs twice.
C24_DiscoveryShape ==
    Discovered =>
        LET data == provider.response
        IN  /\ {"tools", "resources", "capabilities"} \subseteq DOMAIN data
            /\ \A i \in 1..Len(data.tools) :
                  /\ {"name", "description", "inputSchema"} \subseteq DOMAIN data.tools[i]
                  /\ data.tools[i].inputSchema.py = "dict"
                  /\ data.tools[i].name # <<>>
                  /\ \A j \in 1..Len(data.tools) :
                        data.tools[i].name = data.tools[j].name => i = j

\* the summarizer has answered with its two tools
C24_Witness ==
    /\ Discovered
    /\ provider.p = 1
    /\ Len(provider.response.tools) = 2
    /\ provider.response.tools[2].name = HIGHLIGHT_KEY_POINTS

\* C30: an invoke whose transcript argument is missing, empty, blank, shorter
\* than 10 characters after trimming or longer than 10000 characters is
\* answered with an error status, without an LLM call and without content.
C30_InvalidTranscriptNoLLM ==
    (Invoked /\ ~GoodTranscript(provider.body.arguments)) =>
        /\ provider.response.status_code >= 400
        /\ ~provider.response.llm_request.sent
        /\ "body" \notin DOMAIN provider.response

\* extract_tasks with a transcript of eleven characters, five of them
\* between blanks, is refused by the task extractor with status 500
C30_Witness ==
    /\ Invoked
    /\ provider.p = 2
    /\ provider.body.name = EXTRACT_TASKS
    /\ provider.body.arguments = [transcript |-> Text(3, 5, 3)]
    /\ provider.response.status_code = 500
    /\ ~provider.response.llm_request.sent

----------------------------------------------------------------------------
(* Property of run_all_tests, checked under SpecTester *)

\* C28: run_all_tests returns True only if every test it ran had the status
\* PASS, the discovery and the health test of every agent and the invoke
\* test of every tool; and the invoke result stored for an agent comes from
\* an invoke test of that agent.
C28_TrueOnlyIfAllPassed ==
    tester.pc = "done" =>
        /\ tester.returned =>
              \A i \in 1..Len(tester.ran) : tester.ran[i].status = "PASS"
        /\ \A i \in 1..Len(tester.results) :
              tester.results[i].invoke # Unbound =>
                  tester.results[i].invoke.agent = tester.results[i].agent

====
